---------------------------- MODULE Spec2Model ----------------------------
(***************************************************************************)
(* Model of the forex_evaluation repository: the inference engine          *)
(* (app/engine/inference_engine.py), the evaluation engine                 *)
(* (app/engine/evaluation_engine.py), the persistent store with the        *)
(* handlers that write it (app/main.py, app/crud.py, scripts/*.py) and the *)
(* job scheduler (app/scheduler.py).                                       *)
(*                                                                         *)
(* Texts are sequences of characters; a character is a one-element string. *)
(* A character outside ASCII is written as a bracketed name ("<kai>" for   *)
(* the kanji of "buy"), still one character of the text; one name stands   *)
(* for one character throughout (a numbered name, "<ri2>", is the katakana *)
(* or second character of that reading).  Confidences are kept in          *)
(* hundredths (0.5 is 50), so 0.2 is 20 and 0.15 is 15; the rounding error *)
(* of the floating-point sums, below 1e-15, is left out.                   *)
(***************************************************************************)
EXTENDS Integers, Sequences, FiniteSets, TLC

VARIABLES
    engine_text,        \* the text handed to the engine under analysis
    engine_out,         \* what the engine returned for it (<<>> before the call)
    trade_inferences,   \* table trade_inferences: its rows in insertion order
    actual_trades,      \* table actual_trades
    trade_evaluations,  \* table trade_evaluations
    foreign_keys,       \* whether the database behind DB_PATH enforces foreign keys
    proc,               \* per worker: the handler it runs, its position and locals
    returned,           \* what the last step returned to its caller, if anything
    _scheduler_instance,\* the module's scheduler: none, or the place of one in schedulers
    schedulers          \* every ForexEvaluationScheduler constructed so far

engine_vars == <<engine_text, engine_out>>

store_vars == <<trade_inferences, actual_trades, trade_evaluations, foreign_keys,
                proc, returned>>

scheduler_vars == <<_scheduler_instance, schedulers>>

vars == <<engine_text, engine_out, trade_inferences, actual_trades,
          trade_evaluations, foreign_keys, proc, returned,
          _scheduler_instance, schedulers>>

-----------------------------------------------------------------------------
(* Characters and Python's str.upper / str.lower on them.                  *)

UpperLetters ==
    <<"A","B","C","D","E","F","G","H","I","J","K","L","M",
      "N","O","P","Q","R","S","T","U","V","W","X","Y","Z">>

LowerLetters ==
    <<"a","b","c","d","e","f","g","h","i","j","k","l","m",
      "n","o","p","q","r","s","t","u","v","w","x","y","z">>

UpperSet == {UpperLetters[i] : i \in 1..26}

LowerSet == {LowerLetters[i] : i \in 1..26}

ToUpper == [c \in LowerSet |-> UpperLetters[CHOOSE i \in 1..26 : LowerLetters[i] = c]]

ToLower == [c \in UpperSet |-> LowerLetters[CHOOSE i \in 1..26 : UpperLetters[i] = c]]

\* the letters outside ASCII that [A-Z] matches under re.IGNORECASE:
\* U+017F, U+0131, U+0130 and U+212A
FoldLetters == {"<long_s>", "<dotless_i>", "<I_dot>", "<kelvin>"}

\* str.upper() of one character
Upper(c) ==
    IF c \in LowerSet THEN ToUpper[c]
    ELSE IF c = "<long_s>" THEN "S"
    ELSE IF c = "<dotless_i>" THEN "I"
    ELSE c

\* str.lower() of one character that lowers to one character
Lower(c) ==
    IF c \in UpperSet THEN ToLower[c]
    ELSE IF c = "<kelvin>" THEN "k"
    ELSE c

UpperStr(s) == [i \in 1..Len(s) |-> Upper(s[i])]

\* str.lower() from index i on: U+0130 lowers to "i" and a combining dot
RECURSIVE LowerFrom(_, _)
LowerFrom(s, i) ==
    IF i > Len(s) THEN <<>>
    ELSE (IF s[i] = "<I_dot>" THEN <<"i", "<dot_above>">> ELSE <<Lower(s[i])>>)
         \o LowerFrom(s, i + 1)

LowerStr(s) ==
    IF \A i \in 1..Len(s) : s[i] # "<I_dot>"
    THEN [i \in 1..Len(s) |-> Lower(s[i])]
    ELSE LowerFrom(s, 1)

\* [A-Z] under re.IGNORECASE
IsAZ(c) == c \in UpperSet \/ c \in LowerSet \/ c \in FoldLetters

\* \s
IsSpace(c) == c \in {" ", "<nl>", "<tab>"}

\* the characters of the model that are no letters
NonLetters == {" ", "<nl>", "<tab>", ".", ":", "/", "-", "_", ";", "<dot_above>"}

\* str.isalpha() of one character
IsAlpha(c) == c \notin NonLetters

\* the character at 1-based index i, "" past either end
CharAt(t, i) == IF i \in 1..Len(t) THEN t[i] ELSE ""

\* kw in ctx (Python's substring test)
Contains(ctx, kw) ==
    \E i \in 1..(Len(ctx) - Len(kw) + 1) :
        \A j \in 1..Len(kw) : ctx[i + j - 1] = kw[j]

\* Python's slice t[a:b] for 0 <= a, b <= len(t)
Slice(t, a, b) == IF a < b THEN SubSeq(t, a + 1, b) ELSE <<>>

Max2(a, b) == IF a >= b THEN a ELSE b

Min2(a, b) == IF a <= b THEN a ELSE b

-----------------------------------------------------------------------------
(* Words of the engine's vocabulary, as character sequences.               *)

BUY == <<"B","U","Y">>

SELL == <<"S","E","L","L">>

KAI == <<"<kai>","<i>">>            \* "buy" in Japanese (2 characters)

URI == <<"<uri>","<ri>">>           \* "sell" in Japanese (2 characters)

LONG_JA == <<"<ro>","<n>","<gu>">>  \* "long" in katakana

SHORT_JA == <<"<shi>","<yo>","<-->","<to>">>  \* "short" in katakana

POSITION_JA == <<"<po>","<ji>","<shi>","<yo>","<n>">>  \* "position" in katakana

WO == "<wo>"                        \* the object particle

\* the English words of the confidence vocabulary
STRONG_W == <<"s","t","r","o","n","g">>

CONFIDENT_W == <<"c","o","n","f","i","d","e","n","t">>

CLEAR_W == <<"c","l","e","a","r">>

BULLISH_W == <<"b","u","l","l","i","s","h">>

BEARISH_W == <<"b","e","a","r","i","s","h">>

UNCERTAIN_W == <<"u","n","c","e","r","t","a","i","n">>

MAYBE_W == <<"m","a","y","b","e">>

POSSIBLY_W == <<"p","o","s","s","i","b","l","y">>

MIGHT_W == <<"m","i","g","h","t">>

COULD_W == <<"c","o","u","l","d">>

-----------------------------------------------------------------------------
(* InferenceEngine: the four action patterns (re.finditer, re.IGNORECASE). *)
(* A match is [start, end, groups]: start and end are Python's 0-based     *)
(* match.start() and match.end(), groups is match.groups().                *)

NoMatch == [start |-> -1, end |-> -1, groups |-> <<>>]

\* the literal lit at 1-based index i of t, compared case-insensitively
LitAt(t, i, lit) ==
    /\ i >= 1
    /\ i + Len(lit) - 1 <= Len(t)
    /\ \A j \in 1..Len(lit) : Upper(t[i + j - 1]) = Upper(lit[j])

\* [A-Z]{6} at 1-based index i of t
SixLettersAt(t, i) ==
    /\ i >= 1
    /\ i + 5 <= Len(t)
    /\ \A j \in 0..5 : IsAZ(t[i + j])

\* the first index k >= i at which t has no whitespace (greedy \s*)
RECURSIVE SkipSpaces(_, _)
SkipSpaces(t, i) ==
    IF i <= Len(t) /\ IsSpace(t[i]) THEN SkipSpaces(t, i + 1) ELSE i

\* (BUY|SELL) at i: the length of the alternative that matches, 0 for none
ActionWordAt(t, i) ==
    IF LitAt(t, i, BUY) THEN 3 ELSE IF LitAt(t, i, SELL) THEN 4 ELSE 0

\* (kai-i|uri-ri) at i: 2 when one of the two Japanese verbs is there
VerbJaAt(t, i) ==
    IF LitAt(t, i, KAI) \/ LitAt(t, i, URI) THEN 2 ELSE 0

\* r'(BUY|SELL)\s+([A-Z]{6})' anchored at 1-based index i
MatchActionPair(t, i) ==
    LET n == ActionWordAt(t, i)
        k == SkipSpaces(t, i + n)
    IN  IF n > 0 /\ IsSpace(CharAt(t, i + n)) /\ SixLettersAt(t, k)
        THEN [start |-> i - 1, end |-> k + 5,
              groups |-> <<SubSeq(t, i, i + n - 1), SubSeq(t, k, k + 5)>>]
        ELSE NoMatch

\* r'([A-Z]{6})\s+(BUY|SELL)' anchored at 1-based index i
MatchPairAction(t, i) ==
    LET k == SkipSpaces(t, i + 6)
        n == ActionWordAt(t, k)
    IN  IF SixLettersAt(t, i) /\ IsSpace(CharAt(t, i + 6)) /\ n > 0
        THEN [start |-> i - 1, end |-> k + n - 1,
              groups |-> <<SubSeq(t, i, i + 5), SubSeq(t, k, k + n - 1)>>]
        ELSE NoMatch

\* r'<position>\s*:\s*(kai-i|uri-ri)\s*([A-Z]{6})' anchored at i
MatchPositionJa(t, i) ==
    LET k1 == SkipSpaces(t, i + 5)
        k2 == SkipSpaces(t, k1 + 1)
        n  == VerbJaAt(t, k2)
        k3 == SkipSpaces(t, k2 + n)
    IN  IF LitAt(t, i, POSITION_JA) /\ CharAt(t, k1) = ":" /\ n > 0
           /\ SixLettersAt(t, k3)
        THEN [start |-> i - 1, end |-> k3 + 5,
              groups |-> <<SubSeq(t, k2, k2 + n - 1), SubSeq(t, k3, k3 + 5)>>]
        ELSE NoMatch

\* r'([A-Z]{6})\s*<wo>\s*(kai-i|uri-ri)' anchored at i
MatchPairWoVerb(t, i) ==
    LET k1 == SkipSpaces(t, i + 6)
        k2 == SkipSpaces(t, k1 + 1)
        n  == VerbJaAt(t, k2)
    IN  IF SixLettersAt(t, i) /\ CharAt(t, k1) = WO /\ n > 0
        THEN [start |-> i - 1, end |-> k2 + n - 1,
              groups |-> <<SubSeq(t, i, i + 5), SubSeq(t, k2, k2 + n - 1)>>]
        ELSE NoMatch

\* self.action_patterns, in order
action_patterns == <<"action_pair", "pair_action", "position_ja", "pair_wo_verb">>

MatchAt(pattern, t, i) ==
    CASE pattern = "action_pair"  -> MatchActionPair(t, i)
      [] pattern = "pair_action"  -> MatchPairAction(t, i)
      [] pattern = "position_ja"  -> MatchPositionJa(t, i)
      [] pattern = "pair_wo_verb" -> MatchPairWoVerb(t, i)

\* re.finditer(pattern, t): the leftmost match at or after 1-based index
\* pos, then the matches that follow its end (matches never overlap)
RECURSIVE FindIter(_, _, _)
FindIter(pattern, t, pos) ==
    LET hits == {i \in pos..Len(t) : MatchAt(pattern, t, i) # NoMatch}
    IN  IF hits = {} THEN <<>>
        ELSE LET i == CHOOSE h \in hits : \A g \in hits : h <= g
                 m == MatchAt(pattern, t, i)
             IN  <<m>> \o FindIter(pattern, t, m.end + 1)

-----------------------------------------------------------------------------
(* InferenceEngine._estimate_confidence                                    *)

\* the characters of context taken before the match start and after its end
ContextRadius == 100

positive_keywords ==
    << <<"<kyou>","<ku>","<sui>","<shou>">>,   \* "strongly recommended"
       <<"<kaku>","<shin>">>,                  \* "conviction"
       <<"<mei>","<kaku>">>,                   \* "clear"
       <<"<kyou>","<ki>">>,                    \* "bullish"
       STRONG_W, CONFIDENT_W, CLEAR_W, BULLISH_W, BEARISH_W,
       <<"<taka>","<i>","<kaku>","<ritsu>">> >>  \* "high probability"

negative_keywords ==
    << <<"<fu>","<kaku>","<jitsu>">>,          \* "uncertain"
       <<"<gi>","<mon>">>,                     \* "doubt"
       UNCERTAIN_W, MAYBE_W, POSSIBLY_W, MIGHT_W, COULD_W,
       <<"<ka>","<nou>","<sei>">> >>           \* "possibility"

\* the loop "for keyword in keywords: if keyword in context: base += step"
RECURSIVE AddPerKeyword(_, _, _, _, _)
AddPerKeyword(keywords, k, context, base, step) ==
    IF k > Len(keywords) THEN base
    ELSE AddPerKeyword(keywords, k + 1, context,
                       IF Contains(context, keywords[k]) THEN base + step ELSE base,
                       step)

\* fault variant: the whole text as the context
ContextOfWholeText(text, start_pos, end_pos) == LowerStr(text)

\* text[context_start:context_end].lower()
ContextOf(text, start_pos, end_pos) ==
    LowerStr(Slice(text, Max2(0, start_pos - ContextRadius),
                         Min2(Len(text), end_pos + ContextRadius)))

\* fault variant: the sum returned without the final max/min
EstimateUnclamped(text, start_pos, end_pos) ==
    LET context == LowerStr(Slice(text, Max2(0, start_pos - ContextRadius),
                                  Min2(Len(text), end_pos + ContextRadius)))
        raised  == AddPerKeyword(positive_keywords, 1, context, 50, 20)
    IN  AddPerKeyword(negative_keywords, 1, context, raised, -15)

\* the confidence in hundredths
_estimate_confidence(text, start_pos, end_pos) ==
    LET context == ContextOf(text, start_pos, end_pos)
        raised  == AddPerKeyword(positive_keywords, 1, context, 50, 20)
        lowered == AddPerKeyword(negative_keywords, 1, context, raised, -15)
    IN  Max2(0, Min2(100, lowered))

-----------------------------------------------------------------------------
(* InferenceEngine.parse_inference_response                                *)

\* lines 41-54: which group is the action and which the pair; ok is FALSE
\* where the code reaches "continue"
ResolveGroups(groups) ==
    LET g0 == groups[1]
        g1 == groups[2]
    IN  IF UpperStr(g0) \in {BUY, SELL}
        THEN [ok |-> TRUE, action |-> UpperStr(g0), pair |-> UpperStr(g1)]
        ELSE IF UpperStr(g1) \in {BUY, SELL}
        THEN [ok |-> TRUE, action |-> UpperStr(g1), pair |-> UpperStr(g0)]
        ELSE IF g0 \in {KAI, LONG_JA}
        THEN [ok |-> TRUE, action |-> BUY, pair |-> UpperStr(g1)]
        ELSE IF g0 \in {URI, SHORT_JA}
        THEN [ok |-> TRUE, action |-> SELL, pair |-> UpperStr(g1)]
        ELSE [ok |-> FALSE, action |-> <<>>, pair |-> <<>>]

\* lines 37-65 for the matches ms of one pattern, from the k-th on
RECURSIVE CandidatesOfMatches(_, _, _)
CandidatesOfMatches(text, ms, k) ==
    IF k > Len(ms) THEN <<>>
    ELSE LET m == ms[k]
             r == ResolveGroups(m.groups)
         IN  (IF r.ok /\ Len(r.pair) = 6
              THEN << [action |-> r.action, pair |-> r.pair,
                       confidence |-> _estimate_confidence(text, m.start, m.end),
                       position_in_text |-> m.start] >>
              ELSE <<>>)
             \o CandidatesOfMatches(text, ms, k + 1)

\* lines 32-65: the list "actions", pattern by pattern, match by match
RECURSIVE CollectActions(_, _)
CollectActions(text, p) ==
    IF p > Len(action_patterns) THEN <<>>
    ELSE CandidatesOfMatches(text, FindIter(action_patterns[p], text, 1), 1)
         \o CollectActions(text, p + 1)

\* fault variant: an ascending sort turned around, which turns the order
\* of equal confidences around too
RECURSIVE InsertBeforeEqual(_, _)
InsertBeforeEqual(s, x) ==
    IF s = <<>> THEN <<x>>
    ELSE IF Head(s).confidence > x.confidence
         THEN <<Head(s)>> \o InsertBeforeEqual(Tail(s), x)
         ELSE <<x>> \o s

\* x put into the descending list s behind every entry of at least its
\* confidence
RECURSIVE InsertByConfidence(_, _)
InsertByConfidence(s, x) ==
    IF s = <<>> THEN <<x>>
    ELSE IF Head(s).confidence >= x.confidence
         THEN <<Head(s)>> \o InsertByConfidence(Tail(s), x)
         ELSE <<x>> \o s

\* sorted(actions, key=confidence, reverse=True): stable, equal keys keep
\* their order
RECURSIVE SortedByConfidence(_, _)
SortedByConfidence(actions, n) ==
    IF n = 0 THEN <<>>
    ELSE InsertByConfidence(SortedByConfidence(actions, n - 1), actions[n])

\* fault variant: the loop without its seen_pairs test
RECURSIVE UniqueActionsKeepAll(_, _, _)
UniqueActionsKeepAll(sorted, k, seen_pairs) ==
    IF k > Len(sorted) THEN <<>>
    ELSE << [action |-> sorted[k].action, pair |-> sorted[k].pair,
             confidence |-> sorted[k].confidence] >>
         \o UniqueActionsKeepAll(sorted, k + 1, seen_pairs)

\* lines 68-78: keep the first entry of every pair
RECURSIVE UniqueActions(_, _, _)
UniqueActions(sorted, k, seen_pairs) ==
    IF k > Len(sorted) THEN <<>>
    ELSE IF sorted[k].pair \notin seen_pairs
         THEN << [action |-> sorted[k].action, pair |-> sorted[k].pair,
                  confidence |-> sorted[k].confidence] >>
              \o UniqueActions(sorted, k + 1, seen_pairs \cup {sorted[k].pair})
         ELSE UniqueActions(sorted, k + 1, seen_pairs)

parse_inference_response(raw_response) ==
    LET actions == CollectActions(raw_response, 1)
    IN  UniqueActions(SortedByConfidence(actions, Len(actions)), 1, {})

-----------------------------------------------------------------------------
(* EvaluationEngine._evaluate_logic                                        *)

market_keywords ==
    << <<"t","r","e","n","d">>, <<"s","u","p","p","o","r","t">>, <<"r","e","s","i","s","t","a","n","c","e">>, <<"v","o","l","u","m","e">>, <<"m","o","m","e","n","t","u","m">>,
       <<"<to>","<re>","<n>","<do>">>,                       \* "trend"
       <<"<sa>","<po>","<-->","<to>">>,                      \* "support"
       <<"<re>","<ji>","<su>","<ta>","<n>","<su>">>,         \* "resistance"
       <<"<de>","<rai>","<taka>">>,                           \* "volume"
       <<"<ikio>","<i>">> >>                                 \* "momentum"

technical_keywords ==
    << <<"r","s","i">>, <<"m","a","c","d">>,
       <<"m","o","v","i","n","g"," ","a","v","e","r","a","g","e">>,
       <<"b","o","l","l","i","n","g","e","r">>, <<"e","m","a">>, <<"s","m","a">>, <<"a","d","x">>,
       <<"s","t","o","c","h","a","s","t","i","c">>,
       <<"<i2>","<dou>","<hei>","<kin>">>,                   \* "moving average"
       <<"<bo>","<ri2>","<n>","<ji>","<ya>","<-->">> >>      \* "Bollinger"

risk_keywords ==
    << <<"s","t","o","p"," ","l","o","s","s">>,
       <<"r","i","s","k">>,
       <<"p","o","s","i","t","i","o","n"," ","s","i","z","e">>,
       <<"d","r","a","w","d","o","w","n">>,
       <<"<su>","<to>","<tsu>","<pu>","<ro>","<su>">>,       \* "stop loss"
       <<"<ri2>","<su>","<ku2>">>,                           \* "risk"
       <<"<po>","<ji>","<shi>","<yo>","<n>","<sa>","<i3>","<zu>">>,  \* "position size"
       <<"<do>","<ro>","<-->","<da>","<u>","<n>">> >>        \* "drawdown"

\* 'because' and its two Japanese equivalents
causal_connectives ==
    << <<"b","e","c","a","u","s","e">>,
       <<"<na>","<ze>","<na>","<ra>">>,
       <<"<ta2>","<me>">> >>

\* sum(1 for keyword in keywords if keyword in response)
RECURSIVE CountPresent(_, _, _)
CountPresent(keywords, k, response) ==
    IF k > Len(keywords) THEN 0
    ELSE (IF Contains(response, keywords[k]) THEN 1 ELSE 0)
         + CountPresent(keywords, k + 1, response)

\* any(connective in response)
HasCausal(response) ==
    \E k \in 1..Len(causal_connectives) : Contains(response, causal_connectives[k])

\* the market-analysis check: [inc, comment]
MarketCheck(response) ==
    LET market_analysis_count == CountPresent(market_keywords, 1, response)
    IN  IF market_analysis_count >= 3 THEN [inc |-> 1, comment |-> "market_sufficient"]
        ELSE IF market_analysis_count >= 1 THEN [inc |-> 0, comment |-> "market_basic"]
        ELSE [inc |-> 0, comment |-> "market_insufficient"]

\* the technical-indicator check
TechnicalCheck(response) ==
    LET technical_count == CountPresent(technical_keywords, 1, response)
    IN  IF technical_count >= 2 THEN [inc |-> 1, comment |-> "technical_multiple"]
        ELSE IF technical_count >= 1 THEN [inc |-> 0, comment |-> "technical_single"]
        ELSE [inc |-> 0, comment |-> "technical_insufficient"]

\* the risk-management check
RiskCheck(response) ==
    LET risk_count == CountPresent(risk_keywords, 1, response)
    IN  IF risk_count >= 2 THEN [inc |-> 1, comment |-> "risk_sufficient"]
        ELSE IF risk_count >= 1 THEN [inc |-> 0, comment |-> "risk_basic"]
        ELSE [inc |-> 0, comment |-> "risk_insufficient"]

\* fault variant: the clarity point given from 100 characters on
ClarityCheckAtHalf(response) ==
    IF Len(response) >= 100 /\ HasCausal(response)
    THEN [inc |-> 1, comment |-> "clarity_clear"]
    ELSE IF Len(response) >= 100 THEN [inc |-> 0, comment |-> "clarity_present"]
    ELSE [inc |-> 0, comment |-> "clarity_insufficient"]

\* the clarity check
ClarityCheck(response) ==
    IF Len(response) >= 200 /\ HasCausal(response)
    THEN [inc |-> 1, comment |-> "clarity_clear"]
    ELSE IF Len(response) >= 100 THEN [inc |-> 0, comment |-> "clarity_present"]
    ELSE [inc |-> 0, comment |-> "clarity_insufficient"]

\* sep.join(parts): the parts with the separator between neighbours
RECURSIVE Join(_, _)
Join(parts, sep) ==
    IF Len(parts) <= 1 THEN parts
    ELSE <<Head(parts), sep>> \o Join(Tail(parts), sep)

\* fault variant: a check that adds nothing to the score leaves no comment
EvaluateLogicPassedOnly(raw_response) ==
    LET response == LowerStr(raw_response)
        checks == <<MarketCheck(response), TechnicalCheck(response),
                    RiskCheck(response), ClarityCheck(response)>>
        passed == SelectSeq(checks, LAMBDA k : k.inc = 1)
    IN  [score   |-> Min2(5, Max2(1, 1 + Len(passed))),
         comment |-> Join([i \in 1..Len(passed) |-> passed[i].comment], "; ")]

\* returns [score, comment]; the comment is "; ".join(comments)
_evaluate_logic(raw_response) ==
    LET response == LowerStr(raw_response)
        m == MarketCheck(response)
        t == TechnicalCheck(response)
        r == RiskCheck(response)
        c == ClarityCheck(response)
        score == 1 + m.inc + t.inc + r.inc + c.inc
    IN  [score   |-> Min2(5, Max2(1, score)),
         comment |-> Join(<<m.comment, t.comment, r.comment, c.comment>>, "; ")]

-----------------------------------------------------------------------------
(* Optional values (Python's None): None is the empty tuple, a value v is  *)
(* the one-element tuple <<v>>.                                            *)

None == <<>>

Some(v) == <<v>>

IsNone(x) == x = <<>>

Val(x) == x[1]

-----------------------------------------------------------------------------
(* EvaluationEngine: potential profit/loss, realized analysis, summary.    *)
(* Money is kept in hundredths, like str.format's ".2f".                   *)

\* first_action.get('confidence', 0.5), in hundredths
ConfidenceOf(action) ==
    IF "confidence" \in DOMAIN action THEN action.confidence ELSE 50

\* an entry of inferred_actions whose 'confidence' is JSON that is not a
\* number (null, a string): the entry keeps it, as text, under
\* confidence_raw, and has no number under confidence
NotANumber(action) == "confidence_raw" \in DOMAIN action

\* base_return * confidence raises TypeError for such a first action
PotentialRaises(inferred_actions) ==
    /\ ~IsNone(inferred_actions)
    /\ Val(inferred_actions) # <<>>
    /\ NotANumber(Val(inferred_actions)[1])

\* fault variant: the confidence of the last action is used
PotentialOfLastAction(inferred_actions) ==
    IF IsNone(inferred_actions) \/ Val(inferred_actions) = <<>>
    THEN 0
    ELSE 80 * ConfidenceOf(Val(inferred_actions)[Len(Val(inferred_actions))])

\* 0.01 * confidence * 0.8 * 10000 = 80 * confidence; in hundredths that
\* is 80 * (confidence in hundredths)
_calculate_potential_profit_loss(inferred_actions) ==
    IF IsNone(inferred_actions) \/ Val(inferred_actions) = <<>>
    THEN 0
    ELSE 80 * ConfidenceOf(Val(inferred_actions)[1])

\* the trades of the list that have a profit_loss
CompletedTrades(trades) ==
    SelectSeq(trades, LAMBDA t : ~IsNone(t.profit_loss))

RECURSIVE SumProfitLoss(_)
SumProfitLoss(ts) ==
    IF ts = <<>> THEN 0 ELSE Val(Head(ts).profit_loss) + SumProfitLoss(Tail(ts))

\* a / b rounded to the nearest integer (b > 0, a >= 0), as ".1f" rounds
RoundDiv(a, b) == (2 * a + b) \div (2 * b)

\* fault variant: the win rate taken over all the trades, settled or not
AnalysisOverAllTrades(trades) ==
    LET completed_trades == CompletedTrades(trades)
        total_pnl == SumProfitLoss(completed_trades)
        winning_trades ==
            Len(SelectSeq(completed_trades, LAMBDA t : Val(t.profit_loss) > 0))
    IN  IF trades = <<>> THEN <<"no_related_trades">>
        ELSE <<"executed", Len(trades),
               "settled", Len(completed_trades),
               "win_rate", RoundDiv(winning_trades * 1000, Len(trades)),
               "total_pnl", total_pnl * 100>>

\* the analysis text, by its parts: the counts, the win rate in tenths of
\* a percent (".1f") and the total in hundredths (".2f")
_analyze_actual_performance(trades) ==
    LET completed_trades == CompletedTrades(trades)
        total_pnl == SumProfitLoss(completed_trades)
        winning_trades ==
            Len(SelectSeq(completed_trades, LAMBDA t : Val(t.profit_loss) > 0))
    IN  IF trades = <<>> THEN <<"no_related_trades">>
        ELSE IF completed_trades = <<>>
        THEN <<"executed_unsettled", Len(trades)>>
        ELSE <<"executed", Len(trades),
               "settled", Len(completed_trades),
               "win_rate", RoundDiv(winning_trades * 1000, Len(completed_trades)),
               "total_pnl", total_pnl * 100>>

\* fault variant: the recommendation is given up to score 3
SummaryAdviceUpToGood(logic_score, potential_pnl, trades, actual_analysis) ==
    LET logic_part ==
            IF logic_score >= 4 THEN <<"logic_excellent">>
            ELSE IF logic_score >= 3 THEN <<"logic_good">>
            ELSE <<"logic_needs_improvement">>
        potential_part ==
            IF potential_pnl > 5000 THEN <<"high_potential">>
            ELSE IF potential_pnl > 0 THEN <<"positive_potential">>
            ELSE <<"carries_risk">>
        actual_part ==
            IF trades # <<>> THEN << <<"actual">> \o actual_analysis >> ELSE <<>>
        advice_part ==
            IF logic_score <= 3 THEN << <<"recommend_strengthening">> >> ELSE <<>>
    IN  Join(<<logic_part, potential_part>> \o actual_part \o advice_part, <<". ">>)
        \o << <<".">> >>

\* ". ".join(summary_parts) + "."; every part and separator is a tuple
_generate_evaluation_summary(logic_score, potential_pnl, trades, actual_analysis) ==
    LET logic_part ==
            IF logic_score >= 4 THEN <<"logic_excellent">>
            ELSE IF logic_score >= 3 THEN <<"logic_good">>
            ELSE <<"logic_needs_improvement">>
        potential_part ==
            IF potential_pnl > 5000 THEN <<"high_potential">>
            ELSE IF potential_pnl > 0 THEN <<"positive_potential">>
            ELSE <<"carries_risk">>
        actual_part ==
            IF trades # <<>> THEN << <<"actual">> \o actual_analysis >> ELSE <<>>
        advice_part ==
            IF logic_score < 3 THEN << <<"recommend_strengthening">> >> ELSE <<>>
    IN  Join(<<logic_part, potential_part>> \o actual_part \o advice_part, <<". ">>)
        \o << <<".">> >>

\* the TradeEvaluationCreate the engine returns; the three results it is
\* made of are computed once each
evaluate_inference(inference, trades) ==
    LET drafts ==
            { [inference_id             |-> inference.id,
               logic_evaluation_score   |-> Some(logic.score),
               logic_evaluation_comment |-> Some(logic.comment),
               potential_profit_loss    |-> Some(potential_pnl),
               evaluation_summary       |->
                   Some(_generate_evaluation_summary(logic.score, potential_pnl,
                                                     trades, actual_pnl_analysis))] :
              logic \in {_evaluate_logic(inference.raw_response)},
              potential_pnl \in
                  {_calculate_potential_profit_loss(inference.inferred_actions)},
              actual_pnl_analysis \in
                  {IF trades # <<>> THEN _analyze_actual_performance(trades)
                   ELSE <<>>} }
    IN  CHOOSE draft \in drafts : TRUE

-----------------------------------------------------------------------------
(* The store: app/models.py and app/crud.py.                               *)

\* the workers that run handlers side by side: request threads of the API
\* and the script processes the scheduler starts
NumWorkers == 2

MaxInferences == 2

MaxTrades == 1

\* rows the evaluations table may hold; the unique constraint keeps it at
\* one per inference, below this cap
MaxEvaluationId == 3

\* an inference id no stored inference has
MissingId == 9

Workers == 1..NumWorkers

\* the rows of table for which Test holds, in table order
Rows(table, Test(_)) == SelectSeq(table, Test)

\* query(...).first()
First(rows) == IF rows = <<>> THEN None ELSE Some(rows[1])

\* the id the database gives a new row: one more than the largest in use
NextId(table) ==
    IF table = <<>> THEN 1
    ELSE 1 + (CHOOSE m \in {table[i].id : i \in 1..Len(table)} :
                 \A i \in 1..Len(table) : table[i].id <= m)

get_trade_inference(inferences, inference_id) ==
    First(Rows(inferences, LAMBDA r : r.id = inference_id))

\* fault variant: a look-up that finds nothing
NoInferenceBySlackTs(inferences, slack_ts) == None

get_trade_inference_by_slack_ts(inferences, slack_ts) ==
    First(Rows(inferences, LAMBDA r : r.slack_message_ts = slack_ts))

get_actual_trades_by_inference(trades, inference_id) ==
    Rows(trades, LAMBDA t : t.inference_id = Some(inference_id))

\* fault variant: a look-up that finds nothing
NoEvaluationByInference(evaluations, inference_id) == None

get_trade_evaluation_by_inference(evaluations, inference_id) ==
    First(Rows(evaluations, LAMBDA e : e.inference_id = inference_id))

\* TradeInference.slack_message_ts: unique=True
SlackTsTaken(inferences, slack_ts) ==
    \E i \in 1..Len(inferences) : inferences[i].slack_message_ts = slack_ts

\* fault variant: the column without its unique constraint
EvaluationNeverTaken(evaluations, inference_id) == FALSE

\* TradeEvaluation.inference_id: unique=True
EvaluationTaken(evaluations, inference_id) ==
    \E i \in 1..Len(evaluations) : evaluations[i].inference_id = inference_id

\* ForeignKey('trade_inferences.id'), checked only by a database that
\* enforces foreign keys; ref is an optional inference id
ForeignKeyBroken(inferences, enforced, ref) ==
    /\ enforced
    /\ ~IsNone(ref)
    /\ IsNone(get_trade_inference(inferences, Val(ref)))

\* the three creates: [ok, table]; ok is FALSE for an IntegrityError at
\* commit, which leaves the table as it was
create_trade_inference(inferences, inference) ==
    IF SlackTsTaken(inferences, inference.slack_message_ts)
    THEN [ok |-> FALSE, table |-> inferences]
    ELSE [ok |-> TRUE,
          table |-> Append(inferences,
                           [id               |-> NextId(inferences),
                            slack_message_ts |-> inference.slack_message_ts,
                            inference_time   |-> inference.inference_time,
                            prompt           |-> inference.prompt,
                            raw_response     |-> inference.raw_response,
                            inferred_actions |-> inference.inferred_actions])]

create_actual_trade(trades, inferences, enforced, trade) ==
    IF ForeignKeyBroken(inferences, enforced, trade.inference_id)
    THEN [ok |-> FALSE, table |-> trades]
    ELSE [ok |-> TRUE,
          table |-> Append(trades,
                           [id           |-> NextId(trades),
                            inference_id |-> trade.inference_id,
                            trade_time   |-> trade.trade_time,
                            pair         |-> trade.pair,
                            action       |-> trade.action,
                            entry_price  |-> trade.entry_price,
                            exit_price   |-> trade.exit_price,
                            amount       |-> trade.amount,
                            profit_loss  |-> trade.profit_loss])]

create_trade_evaluation(evaluations, inferences, enforced, evaluation) ==
    IF \/ EvaluationTaken(evaluations, evaluation.inference_id)
       \/ ForeignKeyBroken(inferences, enforced, Some(evaluation.inference_id))
    THEN [ok |-> FALSE, table |-> evaluations]
    ELSE [ok |-> TRUE,
          table |-> Append(evaluations,
                           [id                       |-> NextId(evaluations),
                            inference_id             |-> evaluation.inference_id,
                            logic_evaluation_score   |-> evaluation.logic_evaluation_score,
                            logic_evaluation_comment |-> evaluation.logic_evaluation_comment,
                            potential_profit_loss    |-> evaluation.potential_profit_loss,
                            evaluation_summary       |-> evaluation.evaluation_summary])]

\* db.delete(row); db.commit(): DELETE ... WHERE id = row.id
DeleteById(table, id) == Rows(table, LAMBDA r : r.id # id)

TimeWindowHours == 2

\* find_closest_inference_for_trade: the inferences the query may return,
\* the empty set when the window holds none.  The ORDER BY subtracts two
\* DateTime values; the SQLite database of DATABASE_URL keeps them as text
\* and subtracts their leading numbers, the years, so the rows of the window
\* tie and first() is whichever of them the database picks
find_closest_inference_for_trade(inferences, trade_time, time_window_hours) ==
    LET start_time == trade_time - time_window_hours
        end_time   == trade_time + time_window_hours
    IN  {inferences[i] : i \in
            {j \in 1..Len(inferences) :
                /\ inferences[j].inference_time >= start_time
                /\ inferences[j].inference_time <= end_time}}

-----------------------------------------------------------------------------
(* What callers send: request bodies and the records of the trade file.    *)

USDJPY == <<"U","S","D","J","P","Y">>

\* a response that names two technical indicators
ResponseRich == <<"R","S","I"," ","m","a","c","d">>

InferencePayloads ==
    { [slack_message_ts |-> "ts1", inference_time |-> 10, prompt |-> "p1",
       raw_response |-> ResponseRich,
       inferred_actions |-> Some(<< [action |-> BUY, pair |-> USDJPY, confidence |-> 80] >>)],
      [slack_message_ts |-> "ts2", inference_time |-> 11, prompt |-> "p2",
       raw_response |-> <<>>, inferred_actions |-> None] }

TradePayloads ==
    { [trade_time |-> 12, pair |-> USDJPY, action |-> BUY, entry_price |-> 150,
       exit_price |-> None, amount |-> 10000, profit_loss |-> Some(500),
       inference_id |-> ref] :
      ref \in {Some(1), Some(MissingId)} }

EvaluationPayloads ==
    { [inference_id |-> i, logic_evaluation_score |-> Some(5),
       logic_evaluation_comment |-> Some(<<"manual">>),
       potential_profit_loss |-> Some(12345),
       evaluation_summary |-> Some(<< <<"manual">> >>)] :
      i \in (1..MaxInferences) \cup {MissingId} }

\* records of transaction_log.json, by the keys the importer reads first
TradeFileRecords ==
    { [timestamp |-> Some(12), pair |-> Some(<<"u","s","d","/","j","p","y">>),
       action |-> Some(<<"b","u","y">>),
       entry_price |-> Some(150), exit_price |-> None, amount |-> Some(1000),
       profit_loss |-> Some(-1000)] }

\* datetime.utcnow() while the trade file is read
Now == 15

-----------------------------------------------------------------------------
(* TradeImporter: the normalisation of one record of the trade file.       *)

UNKNOWN == <<"U","N","K","N","O","W","N">>

\* x or default, for an optional number (None and 0 are falsy)
OrElse(x, default) == IF IsNone(x) \/ Val(x) = 0 THEN default ELSE Val(x)

\* x or None, then float(): None and 0 both end as None
Truthy(x) == IF IsNone(x) \/ Val(x) = 0 THEN None ELSE x

\* str.strip()
RECURSIVE Strip(_)
Strip(t) ==
    IF t = <<>> THEN t
    ELSE IF IsSpace(t[1]) THEN Strip(Tail(t))
    ELSE IF IsSpace(t[Len(t)]) THEN Strip(SubSeq(t, 1, Len(t) - 1))
    ELSE t

_normalize_currency_pair(pair_str) ==
    IF IsNone(pair_str) \/ Val(pair_str) = <<>> THEN UNKNOWN
    ELSE LET clean_pair ==
                 UpperStr(SelectSeq(Val(pair_str), LAMBDA c : c \notin {"/", "-", "_"}))
         IN  IF Len(clean_pair) = 6 /\ \A i \in 1..6 : IsAlpha(clean_pair[i])
             THEN clean_pair
             ELSE IF Len(clean_pair) >= 6 THEN SubSeq(clean_pair, 1, 6)
             ELSE UNKNOWN

_normalize_action(action_str) ==
    IF IsNone(action_str) \/ Val(action_str) = <<>> THEN UNKNOWN
    ELSE LET action_lower == Strip(LowerStr(Val(action_str)))
         IN  IF action_lower \in {<<"b","u","y">>, <<"l","o","n","g">>, KAI, LONG_JA} THEN BUY
             ELSE IF action_lower \in {<<"s","e","l","l">>, <<"s","h","o","r","t">>, URI, SHORT_JA} THEN SELL
             ELSE BUY

\* the ActualTradeCreate built from a record; the timestamp is taken as
\* already parsed, a missing one is the time of the import
_normalize_trade_record(record) ==
    [trade_time   |-> IF IsNone(record.timestamp) THEN Now ELSE Val(record.timestamp),
     pair         |-> _normalize_currency_pair(record.pair),
     action       |-> _normalize_action(record.action),
     entry_price  |-> OrElse(record.entry_price, 0),
     exit_price   |-> record.exit_price,
     amount       |-> OrElse(record.amount, 1),
     profit_loss  |-> Truthy(record.profit_loss),
     inference_id |-> None]

-----------------------------------------------------------------------------
(* The handlers.  A handler runs on a worker; each of its steps is one     *)
(* statement sent to the database (a query, or a commit), and the steps of *)
(* two workers interleave; the reads that only feed a commit are taken     *)
(* together with it.                                                       *)

Idle == [pc |-> "idle", loc |-> <<>>]

\* worker w goes on to statement pc with these locals
Running(w, pc, loc) ==
    /\ proc' = [proc EXCEPT ![w] = [pc |-> pc, loc |-> loc]]
    /\ returned' = <<>>
    /\ UNCHANGED <<engine_vars, scheduler_vars>>

\* the handler op of worker w ends with this response or return value
Ends(w, op, result) ==
    /\ proc' = [proc EXCEPT ![w] = Idle]
    /\ returned' = <<[op |-> op, result |-> result]>>
    /\ UNCHANGED <<engine_vars, scheduler_vars>>

At(w, pc) == proc[w].pc = pc

\* rows that running handlers are about to add to a table
PendingInferences == Cardinality({w \in Workers : At(w, "ci_insert")})

PendingTrades == Cardinality({w \in Workers : At(w, "im_loop")})

\* POST /inferences/: the look-up by slack_message_ts
CreateInferenceCheck(w, inference) ==
    /\ At(w, "idle")
    /\ \/ SlackTsTaken(trade_inferences, inference.slack_message_ts)
       \/ Len(trade_inferences) + PendingInferences < MaxInferences
    /\ LET existing ==
               get_trade_inference_by_slack_ts(trade_inferences, inference.slack_message_ts)
       IN  IF ~IsNone(existing)
           THEN Ends(w, "create_inference", 400)
           ELSE Running(w, "ci_insert", [inference |-> inference])
    /\ UNCHANGED <<trade_inferences, actual_trades, trade_evaluations, foreign_keys>>

\* POST /inferences/: crud.create_trade_inference; an IntegrityError is
\* not caught and becomes a 500
CreateInferenceInsert(w) ==
    /\ At(w, "ci_insert")
    /\ LET made == create_trade_inference(trade_inferences, proc[w].loc.inference)
       IN  /\ trade_inferences' = made.table
           /\ Ends(w, "create_inference", IF made.ok THEN 200 ELSE 500)
    /\ UNCHANGED <<actual_trades, trade_evaluations, foreign_keys>>

\* POST /trades/
CreateTrade(w, trade) ==
    /\ At(w, "idle")
    /\ Len(actual_trades) + PendingTrades < MaxTrades
    /\ LET made == create_actual_trade(actual_trades, trade_inferences, foreign_keys, trade)
       IN  /\ actual_trades' = made.table
           /\ Ends(w, "create_trade", IF made.ok THEN 200 ELSE 500)
    /\ UNCHANGED <<trade_inferences, trade_evaluations, foreign_keys>>

\* fault variant: POST /evaluations/ without the look-up of the inference
CreateEvaluationUnchecked(w, evaluation) ==
    /\ At(w, "idle")
    /\ LET existing == get_trade_evaluation_by_inference(trade_evaluations,
                                                         evaluation.inference_id)
       IN  IF ~IsNone(existing) THEN Ends(w, "create_evaluation", 400)
           ELSE Running(w, "ce_insert", [evaluation |-> evaluation])
    /\ UNCHANGED <<trade_inferences, actual_trades, trade_evaluations, foreign_keys>>

\* POST /evaluations/: the two look-ups
CreateEvaluationCheck(w, evaluation) ==
    /\ At(w, "idle")
    /\ LET inference == get_trade_inference(trade_inferences, evaluation.inference_id)
           existing  == get_trade_evaluation_by_inference(trade_evaluations,
                                                          evaluation.inference_id)
       IN  IF IsNone(inference) THEN Ends(w, "create_evaluation", 404)
           ELSE IF ~IsNone(existing) THEN Ends(w, "create_evaluation", 400)
           ELSE Running(w, "ce_insert", [evaluation |-> evaluation])
    /\ UNCHANGED <<trade_inferences, actual_trades, trade_evaluations, foreign_keys>>

\* POST /evaluations/: crud.create_trade_evaluation
CreateEvaluationInsert(w) ==
    /\ At(w, "ce_insert")
    /\ NextId(trade_evaluations) <= MaxEvaluationId
    /\ LET made == create_trade_evaluation(trade_evaluations, trade_inferences,
                                           foreign_keys, proc[w].loc.evaluation)
       IN  /\ trade_evaluations' = made.table
           /\ Ends(w, "create_evaluation", IF made.ok THEN 200 ELSE 500)
    /\ UNCHANGED <<trade_inferences, actual_trades, foreign_keys>>

-----------------------------------------------------------------------------
(* scripts/run_evaluation.py                                               *)

\* _get_unevaluated_inferences: the lists the query may return, newest
\* inference first (the database orders equal times as it likes), cut to
\* limit rows
_get_unevaluated_inferences(inferences, evaluations, limit) ==
    LET open == {i \in 1..Len(inferences) :
                    ~\E e \in 1..Len(evaluations) :
                        evaluations[e].inference_id = inferences[i].id}
        n == Cardinality(open)
        orders == {o \in [1..n -> open] :
                      /\ \A a, b \in 1..n : a # b => o[a] # o[b]
                      /\ \A a, b \in 1..n :
                            a < b => inferences[o[a]].inference_time
                                        >= inferences[o[b]].inference_time}
    IN  {[k \in 1..Min2(n, limit) |-> inferences[o[k]]] : o \in orders}

\* run_evaluations(max_evaluations): the query for the unevaluated
RunEvaluationsQuery(w, max_evaluations) ==
    /\ At(w, "idle")
    /\ \E unevaluated_inferences \in
            _get_unevaluated_inferences(trade_inferences, trade_evaluations,
                                        max_evaluations) :
          IF unevaluated_inferences = <<>>
          THEN Ends(w, "run_evaluations", [raised |-> FALSE, evaluated_count |-> 0])
          ELSE Running(w, "sw_loop", [max_evaluations |-> max_evaluations,
                                      pending |-> unevaluated_inferences,
                                      evaluated_count |-> 0])
    /\ UNCHANGED <<trade_inferences, actual_trades, trade_evaluations, foreign_keys>>

\* run_evaluations, one turn of the loop: the related trades are read, the
\* engine evaluates, crud.create_trade_evaluation stores.  When the engine
\* raises, the inference is logged and skipped.  A failed commit leaves the
\* session unusable (nothing rolls it back), so whatever the loop does next
\* fails too: the sweep ends without another insert
RunEvaluationsInsert(w) ==
    /\ At(w, "sw_loop")
    /\ NextId(trade_evaluations) <= MaxEvaluationId
    /\ LET loc == proc[w].loc
           inference == Head(loc.pending)
           related == get_actual_trades_by_inference(actual_trades, inference.id)
           raises == PotentialRaises(inference.inferred_actions)
           rest == Tail(loc.pending)
           count == IF raises THEN loc.evaluated_count ELSE loc.evaluated_count + 1
       IN  \E evaluation_data \in {evaluate_inference(inference, related)} :
           \E made \in {IF raises THEN [ok |-> TRUE, table |-> trade_evaluations]
                        ELSE create_trade_evaluation(trade_evaluations, trade_inferences,
                                                     foreign_keys, evaluation_data)} :
              /\ trade_evaluations' = made.table
              /\ IF ~made.ok
                 THEN Ends(w, "run_evaluations",
                           [raised |-> TRUE, evaluated_count |-> loc.evaluated_count])
                 ELSE IF rest = <<>>
                 THEN Ends(w, "run_evaluations",
                           [raised |-> FALSE, evaluated_count |-> count])
                 ELSE Running(w, "sw_loop", [max_evaluations |-> loc.max_evaluations,
                                             pending |-> rest,
                                             evaluated_count |-> count])
    /\ UNCHANGED <<trade_inferences, actual_trades, foreign_keys>>

\* re_evaluate_inference(inference_id): the inference and its evaluation
\* are looked up
ReEvaluateRead(w, inference_id) ==
    /\ At(w, "idle")
    /\ LET inference == get_trade_inference(trade_inferences, inference_id)
           existing_evaluation ==
               get_trade_evaluation_by_inference(trade_evaluations, inference_id)
       IN  IF IsNone(inference) THEN Ends(w, "re_evaluate_inference", FALSE)
           ELSE Running(w, IF IsNone(existing_evaluation) THEN "re_insert" ELSE "re_delete",
                        [inference |-> Val(inference),
                         existing_evaluation |-> existing_evaluation])
    /\ UNCHANGED <<trade_inferences, actual_trades, trade_evaluations, foreign_keys>>

\* fault variant: the delete takes the inference's trades along
ReEvaluateDeleteCascade(w) ==
    /\ At(w, "re_delete")
    /\ trade_evaluations' =
           DeleteById(trade_evaluations, Val(proc[w].loc.existing_evaluation).id)
    /\ actual_trades' =
           Rows(actual_trades,
                LAMBDA t : t.inference_id # Some(proc[w].loc.inference.id))
    /\ Running(w, "re_insert", proc[w].loc)
    /\ UNCHANGED <<trade_inferences, foreign_keys>>

\* re_evaluate_inference: db.delete(existing_evaluation); db.commit()
ReEvaluateDelete(w) ==
    /\ At(w, "re_delete")
    /\ trade_evaluations' =
           DeleteById(trade_evaluations, Val(proc[w].loc.existing_evaluation).id)
    /\ Running(w, "re_insert", proc[w].loc)
    /\ UNCHANGED <<trade_inferences, actual_trades, foreign_keys>>

\* fault variant: the call returns True whatever became of the create
ReEvaluateInsertAlwaysTrue(w) ==
    /\ At(w, "re_insert")
    /\ NextId(trade_evaluations) <= MaxEvaluationId
    /\ LET inference == proc[w].loc.inference
           related == get_actual_trades_by_inference(actual_trades, inference.id)
           evaluation_data == evaluate_inference(inference, related)
           made == create_trade_evaluation(trade_evaluations, trade_inferences,
                                           foreign_keys, evaluation_data)
       IN  /\ trade_evaluations' = made.table
           /\ Ends(w, "re_evaluate_inference", TRUE)
    /\ UNCHANGED <<trade_inferences, actual_trades, foreign_keys>>

\* re_evaluate_inference: the related trades are read, the engine
\* evaluates, crud.create_trade_evaluation stores; any exception is caught
\* and the call returns False
ReEvaluateInsert(w) ==
    /\ At(w, "re_insert")
    /\ NextId(trade_evaluations) <= MaxEvaluationId
    /\ LET inference == proc[w].loc.inference
           related == get_actual_trades_by_inference(actual_trades, inference.id)
           evaluation_data == evaluate_inference(inference, related)
           made == IF PotentialRaises(inference.inferred_actions)
                   THEN [ok |-> FALSE, table |-> trade_evaluations]
                   ELSE create_trade_evaluation(trade_evaluations, trade_inferences,
                                                foreign_keys, evaluation_data)
       IN  /\ trade_evaluations' = made.table
           /\ Ends(w, "re_evaluate_inference", made.ok)
    /\ UNCHANGED <<trade_inferences, actual_trades, foreign_keys>>

-----------------------------------------------------------------------------
(* scripts/import_trades.py                                                *)

\* import_trades for a file of one record: the record is normalised,
\* and the inferences of its time window are queried for the nearest
ImportTradesMatch(w, record) ==
    /\ At(w, "idle")
    /\ Len(actual_trades) + PendingTrades < MaxTrades
    /\ LET trade_create == _normalize_trade_record(record)
           closest == find_closest_inference_for_trade(trade_inferences,
                          trade_create.trade_time, TimeWindowHours)
       IN  \E ref \in IF closest = {} THEN {None} ELSE {Some(c.id) : c \in closest} :
              Running(w, "im_loop",
                      [trade_create |-> [trade_create EXCEPT !.inference_id = ref]])
    /\ UNCHANGED <<trade_inferences, actual_trades, trade_evaluations, foreign_keys>>

\* import_trades: crud.create_actual_trade; the count of imported records
\* is returned
ImportTradesInsert(w) ==
    /\ At(w, "im_loop")
    /\ LET made == create_actual_trade(actual_trades, trade_inferences, foreign_keys,
                                       proc[w].loc.trade_create)
       IN  /\ actual_trades' = made.table
           /\ Ends(w, "import_trades", IF made.ok THEN 1 ELSE 0)
    /\ UNCHANGED <<trade_inferences, trade_evaluations, foreign_keys>>

-----------------------------------------------------------------------------
(* The store's specification.                                              *)

Init ==
    /\ engine_text = <<>>
    /\ engine_out = <<>>
    /\ trade_inferences = <<>>
    /\ actual_trades = <<>>
    /\ trade_evaluations = <<>>
    /\ foreign_keys \in BOOLEAN
    /\ proc = [w \in Workers |-> Idle]
    /\ returned = <<>>
    /\ _scheduler_instance = <<>>
    /\ schedulers = <<>>

Next ==
    \/ \E w \in Workers, inference \in InferencePayloads :
           CreateInferenceCheck(w, inference)
    \/ \E w \in Workers : CreateInferenceInsert(w)
    \/ \E w \in Workers, trade \in TradePayloads : CreateTrade(w, trade)
    \/ \E w \in Workers, evaluation \in EvaluationPayloads :
           CreateEvaluationCheck(w, evaluation)
    \/ \E w \in Workers : CreateEvaluationInsert(w)
    \/ \E w \in Workers, max_evaluations \in 1..MaxInferences :
           RunEvaluationsQuery(w, max_evaluations)
    \/ \E w \in Workers : RunEvaluationsInsert(w)
    \/ \E w \in Workers, inference_id \in (1..MaxInferences) \cup {MissingId} :
           ReEvaluateRead(w, inference_id)
    \/ \E w \in Workers : ReEvaluateDelete(w)
    \/ \E w \in Workers : ReEvaluateInsert(w)
    \/ \E w \in Workers, record \in TradeFileRecords : ImportTradesMatch(w, record)
    \/ \E w \in Workers : ImportTradesInsert(w)

Spec == Init /\ [][Next]_vars

-----------------------------------------------------------------------------
(* The engines on their own: a text is drawn, then an engine method is     *)
(* applied to it.  The store stays as it was constructed.                  *)

StoreUntouched ==
    UNCHANGED <<trade_inferences, actual_trades, trade_evaluations, foreign_keys,
                proc, returned, scheduler_vars>>

StoreEmpty ==
    /\ trade_inferences = <<>>
    /\ actual_trades = <<>>
    /\ trade_evaluations = <<>>
    /\ foreign_keys = FALSE
    /\ proc = [w \in Workers |-> Idle]
    /\ returned = <<>>
    /\ _scheduler_instance = <<>>
    /\ schedulers = <<>>

\* n filler characters
Dots(n) == [i \in 1..n |-> "."]

\* the pieces a response to parse is put together from
ParseTokens ==
    << <<"B","U","Y"," ","U","S","D","J","P","Y">>,
       <<"u","s","d","j","p","y"," ","s","e","l","l">>,
       <<"S","E","L","L","<nl>","E","U","R","U","S","D">>,
       <<" ">>,
       <<"s","t","r","o","n","g"," ">>,
       <<" ","s","t","r","o","n","g">>,
       <<"c","l","e","a","r"," ","B","u","l","l","i","s","h"," ","s","t","r","o","n","g"," ">>,
       <<"m","a","y","b","e"," ">>,
       <<"m","a","y","b","e"," ","m","i","g","h","t"," ","c","o","u","l","d"," ",
         "p","o","s","s","i","b","l","y"," ">>,
       Dots(ContextRadius - 6),
       Dots(ContextRadius - 5),
       POSITION_JA \o <<":"," ">> \o URI \o <<" ","G","B","P","J","P","Y">>,
       <<"E","U","R","J","P","Y",WO>> \o KAI,
       <<"b","u","y"," ","u","<long_s>","d","j","p","y">>,
       <<"s","e","l","l"," ","<kelvin>","<I_dot>","d","j","p","<dotless_i>">> >>

\* the most pieces in one response
MaxParseTokens == 3

RECURSIVE ConcatTokens(_, _)
ConcatTokens(tokens, picks) ==
    IF picks = <<>> THEN <<>>
    ELSE tokens[Head(picks)] \o ConcatTokens(tokens, Tail(picks))

ParseTexts ==
    {ConcatTokens(ParseTokens, picks) :
        picks \in UNION {[1..n -> 1..Len(ParseTokens)] : n \in 0..MaxParseTokens}}

\* the matches parse_inference_response estimates a confidence for: those
\* of any pattern that it resolves to an action and a pair of six characters
EstimatedMatches(text) ==
    UNION {{m \in {FindIter(action_patterns[p], text, 1)[k] :
                      k \in 1..Len(FindIter(action_patterns[p], text, 1))} :
               /\ ResolveGroups(m.groups).ok
               /\ Len(ResolveGroups(m.groups).pair) = 6} :
           p \in 1..Len(action_patterns)}

\* the words that are added around a match
AddedWords ==
    { <<" ">> \o STRONG_W \o <<" ">>,
      <<" ">> \o CLEAR_W \o <<" ">>,
      <<" ","<kaku>","<shin>"," ">> }

\* text with the piece put in before 0-based index q
InsertAt(text, q, piece) == Slice(text, 0, q) \o piece \o Slice(text, q, Len(text))

\* the 0-based half-open window of a match span
WindowStart(start_pos) == Max2(0, start_pos - ContextRadius)

WindowEnd(text, end_pos) == Min2(Len(text), end_pos + ContextRadius)

InitEngine ==
    /\ engine_text \in ParseTexts
    /\ engine_out = <<>>
    /\ StoreEmpty

\* parse_inference_response(engine_text): the candidates and the result
Parse ==
    /\ engine_out = <<>>
    /\ engine_out' = << [op      |-> "parse",
                         actions |-> CollectActions(engine_text, 1),
                         result  |-> parse_inference_response(engine_text)] >>
    /\ UNCHANGED engine_text
    /\ StoreUntouched

\* _estimate_confidence(engine_text, match.start(), match.end()) for a
\* match of one of the patterns
Estimate ==
    /\ engine_out = <<>>
    /\ \E m \in EstimatedMatches(engine_text) :
          engine_out' = << [op         |-> "confidence",
                            start_pos  |-> m.start,
                            end_pos    |-> m.end,
                            confidence |-> _estimate_confidence(engine_text,
                                                                m.start, m.end)] >>
    /\ UNCHANGED engine_text
    /\ StoreUntouched

\* the same match in a text that has one more positive word in the match's
\* window and nothing else of the window changed: the confidence again
EstimateWithAddedWord ==
    /\ engine_out # <<>>
    /\ engine_out[1].op = "confidence"
    /\ LET was    == engine_out[1]
           before == Slice(engine_text, WindowStart(was.start_pos),
                           WindowEnd(engine_text, was.end_pos))
       IN  \E word \in AddedWords,
              q \in {0, was.start_pos, was.end_pos, Len(engine_text)} :
              LET text  == InsertAt(engine_text, q, word)
                  shift == IF q <= was.start_pos THEN Len(word) ELSE 0
                  start_pos == was.start_pos + shift
                  end_pos   == was.end_pos + shift
                  lo == WindowStart(start_pos)
                  hi == WindowEnd(text, end_pos)
              IN  /\ lo <= q
                  /\ q + Len(word) <= hi
                  /\ Slice(text, lo, q) \o Slice(text, q + Len(word), hi) = before
                  /\ engine_text' = text
                  /\ engine_out' =
                         << [op         |-> "confidence_added",
                             start_pos  |-> start_pos,
                             end_pos    |-> end_pos,
                             word       |-> word,
                             previous   |-> was.confidence,
                             confidence |-> _estimate_confidence(text, start_pos,
                                                                 end_pos)] >>
    /\ StoreUntouched

NextEngine == Parse \/ Estimate \/ EstimateWithAddedWord

SpecEngine == InitEngine /\ [][NextEngine]_vars

-----------------------------------------------------------------------------
(* The logic check on its own.                                             *)

\* the pieces a response to score is put together from, each taken or not
LogicTokens ==
    << <<"t","r","e","n","d"," ">>,
       <<"T","R","E","N","D"," ">>,
       <<"s","u","p","p","o","r","t"," ">>,
       <<"<de>","<rai>","<taka>"," ">>,
       <<"R","S","I"," ">>,
       <<"m","a","c","d"," ">>,
       <<"r","i","s","k"," ">>,
       <<"s","t","o","p"," ","l","o","s","s"," ">>,
       <<"b","e","c","a","u","s","e"," ">>,
       <<"<ta2>","<me>"," ">> >>

RECURSIVE TakeTokens(_, _, _)
TakeTokens(tokens, k, taken) ==
    IF k > Len(tokens) THEN <<>>
    ELSE (IF k \in taken THEN tokens[k] ELSE <<>>) \o TakeTokens(tokens, k + 1, taken)

\* the lengths a response is filled up to
LongResponse == 200

FillLengths == {0, LongResponse \div 2 - 1, LongResponse \div 2,
                LongResponse - 1, LongResponse}

FilledTo(text, n) == text \o Dots(Max2(0, n - Len(text)))

LogicTexts ==
    {FilledTo(TakeTokens(LogicTokens, 1, taken), n) :
        taken \in SUBSET (1..Len(LogicTokens)), n \in FillLengths}

InitLogic ==
    /\ engine_text \in LogicTexts
    /\ engine_out = <<>>
    /\ StoreEmpty

\* _evaluate_logic of an inference whose raw_response is engine_text
EvaluateLogic ==
    /\ engine_out = <<>>
    /\ LET logic == _evaluate_logic(engine_text)
       IN  engine_out' = << [op      |-> "logic",
                             score   |-> logic.score,
                             comment |-> logic.comment] >>
    /\ UNCHANGED engine_text
    /\ StoreUntouched

NextLogic == EvaluateLogic

SpecLogic == InitLogic /\ [][NextLogic]_vars

-----------------------------------------------------------------------------
(* The evaluation engine on its own: an inference and trades are stored,   *)
(* then evaluate_inference is applied to the inference and its trades.     *)

\* the sequences over S of length n at most
SeqsUpTo(S, n) == UNION {[1..k -> S] : k \in 0..n}

\* the table after crud.create_trade_inference of each payload in turn
RECURSIVE StoredInferences(_)
StoredInferences(payloads) ==
    IF payloads = <<>> THEN <<>>
    ELSE create_trade_inference(StoredInferences(SubSeq(payloads, 1, Len(payloads) - 1)),
                                payloads[Len(payloads)]).table

\* the table after crud.create_actual_trade of each payload in turn, on a
\* database that does not check the references
RECURSIVE StoredTrades(_)
StoredTrades(payloads) ==
    IF payloads = <<>> THEN <<>>
    ELSE create_actual_trade(StoredTrades(SubSeq(payloads, 1, Len(payloads) - 1)),
                             <<>>, FALSE, payloads[Len(payloads)]).table

\* responses that score 1, 2, 3, 4 and 5
EvaluateResponses ==
    { <<>>,
      TakeTokens(LogicTokens, 1, {5, 6}),
      TakeTokens(LogicTokens, 1, {5, 6, 7, 8}),
      TakeTokens(LogicTokens, 1, {1, 3, 4, 5, 6, 7, 8}),
      FilledTo(TakeTokens(LogicTokens, 1, {1, 3, 4, 5, 6, 7, 8, 9}), LongResponse) }

\* an entry of inferred_actions with this confidence (in hundredths)
ActionWith(confidence) == [action |-> BUY, pair |-> USDJPY, confidence |-> confidence]

\* inferred_actions as the parser or a client of POST /inferences/ leaves it
EvaluateActionLists ==
    { None, Some(<<>>),
      Some(<<ActionWith(0)>>), Some(<<ActionWith(62)>>), Some(<<ActionWith(63)>>),
      Some(<<ActionWith(80)>>),
      Some(<<ActionWith(50), ActionWith(90)>>),
      Some(<<ActionWith(90), ActionWith(50)>>),
      Some(<<[action |-> SELL, pair |-> USDJPY]>>) }

EvaluateInferences ==
    { [slack_message_ts |-> "ts1", inference_time |-> 10, prompt |-> "p1",
       raw_response |-> r, inferred_actions |-> a] :
      r \in EvaluateResponses, a \in EvaluateActionLists }

MaxEvaluateTrades == 2

\* trades of inference 1 and trades of no inference, settled or not
EvaluateTrades ==
    { [trade_time |-> 12, pair |-> USDJPY, action |-> BUY, entry_price |-> 150,
       exit_price |-> None, amount |-> 10000, profit_loss |-> pl,
       inference_id |-> ref] :
      pl \in {None, Some(500), Some(-1000)}, ref \in {Some(1), None} }

InitEvaluate ==
    /\ engine_text = <<>>
    /\ engine_out = <<>>
    /\ \E inference \in EvaluateInferences :
           trade_inferences = StoredInferences(<<inference>>)
    /\ \E trades \in SeqsUpTo(EvaluateTrades, MaxEvaluateTrades) :
           actual_trades = StoredTrades(trades)
    /\ trade_evaluations = <<>>
    /\ foreign_keys = FALSE
    /\ proc = [w \in Workers |-> Idle]
    /\ returned = <<>>
    /\ _scheduler_instance = <<>>
    /\ schedulers = <<>>

\* evaluate_inference(inference, actual_trades) of a stored inference and
\* the trades that refer to it
EvaluateInference ==
    /\ returned = <<>>
    /\ \E i \in 1..Len(trade_inferences) :
          LET inference == trade_inferences[i]
              related == get_actual_trades_by_inference(actual_trades, inference.id)
          IN  returned' = <<[op        |-> "evaluate_inference",
                             inference |-> inference,
                             trades    |-> related,
                             result    |-> evaluate_inference(inference, related)]>>
    /\ UNCHANGED <<engine_vars, scheduler_vars, trade_inferences, actual_trades, trade_evaluations,
                   foreign_keys, proc>>

NextEvaluate == EvaluateInference

SpecEvaluate == InitEvaluate /\ [][NextEvaluate]_vars

-----------------------------------------------------------------------------
(* crud.get_performance_summary.  A float that comes out of a division is  *)
(* kept as the exact fraction in lowest terms, num / den with den > 0;     *)
(* float('inf') is 1 / 0.                                                  *)

RECURSIVE GCD(_, _)
GCD(a, b) == IF b = 0 THEN a ELSE GCD(b, a % b)

\* n / d for d > 0
Ratio(n, d) ==
    LET g == GCD(IF n < 0 THEN -n ELSE n, d)
    IN  [num |-> n \div g, den |-> d \div g]

\* float('inf')
Inf == [num |-> 1, den |-> 0]

\* a < b for two such numbers, b finite
Less(a, b) == a.den # 0 /\ a.num * b.den < b.num * a.den

\* fault variant: the period without its last instant
SettledUpToEnd(trades, start_date, end_date) ==
    Rows(trades, LAMBDA t : /\ t.trade_time >= start_date
                            /\ t.trade_time < end_date
                            /\ ~IsNone(t.profit_loss))

\* the query: the trades of the period that have a profit_loss
SettledInPeriod(trades, start_date, end_date) ==
    Rows(trades, LAMBDA t : /\ t.trade_time >= start_date
                            /\ t.trade_time <= end_date
                            /\ ~IsNone(t.profit_loss))

\* fault variant: the statistics computed for no trades, without the early
\* return
SummaryOfNothing ==
    [total_trades |-> 0, winning_trades |-> 0, losing_trades |-> 0,
     win_rate |-> Ratio(0, 1), total_profit_loss |-> 0,
     average_profit |-> Ratio(0, 1), average_loss |-> Ratio(0, 1),
     profit_factor |-> Inf]

\* the record returned when the query finds no trade
ZeroSummary ==
    [total_trades |-> 0, winning_trades |-> 0, losing_trades |-> 0,
     win_rate |-> Ratio(0, 1), total_profit_loss |-> 0,
     average_profit |-> Ratio(0, 1), average_loss |-> Ratio(0, 1),
     profit_factor |-> Ratio(0, 1)]

\* fault variant: no losses gives 0.0
ProfitFactorOrZero(total_profits, total_losses) ==
    IF total_losses > 0 THEN Ratio(total_profits, total_losses) ELSE Ratio(0, 1)

\* fault variant: the profits' share of all money moved
ProfitShare(total_profits, total_losses) ==
    IF total_losses > 0 THEN Ratio(total_profits, total_profits + total_losses) ELSE Inf

\* total_profits / total_losses if total_losses > 0 else float('inf')
ProfitFactor(total_profits, total_losses) ==
    IF total_losses > 0 THEN Ratio(total_profits, total_losses) ELSE Inf

get_performance_summary(all_trades, start_date, end_date) ==
    LET trades == SettledInPeriod(all_trades, start_date, end_date)
        total_trades == Len(trades)
        profits == SelectSeq(trades, LAMBDA t : Val(t.profit_loss) > 0)
        losses == SelectSeq(trades, LAMBDA t : Val(t.profit_loss) < 0)
        total_profits == SumProfitLoss(profits)
        total_losses == -SumProfitLoss(losses)
    IN  IF trades = <<>> THEN ZeroSummary
        ELSE [total_trades      |-> total_trades,
              winning_trades    |-> Len(profits),
              losing_trades     |-> Len(losses),
              win_rate          |-> Ratio(Len(profits) * 100, total_trades),
              total_profit_loss |-> SumProfitLoss(trades),
              average_profit    |-> IF profits # <<>>
                                    THEN Ratio(SumProfitLoss(profits), Len(profits))
                                    ELSE Ratio(0, 1),
              average_loss      |-> IF losses # <<>>
                                    THEN Ratio(SumProfitLoss(losses), Len(losses))
                                    ELSE Ratio(0, 1),
              profit_factor     |-> ProfitFactor(total_profits, total_losses)]

MaxSummaryTrades == 3

\* trades at two times, unsettled or settled with a profit, a loss or nothing
SummaryTrades ==
    { [trade_time |-> t, pair |-> USDJPY, action |-> BUY, entry_price |-> 150,
       exit_price |-> None, amount |-> 10000, profit_loss |-> pl,
       inference_id |-> None] :
      t \in {10, 12}, pl \in {None, Some(500), Some(-1000), Some(0)} }

\* <<start_date, end_date>>
SummaryPeriods == { <<10, 12>>, <<11, 12>>, <<10, 11>>, <<13, 14>> }

InitSummary ==
    /\ engine_text = <<>>
    /\ engine_out = <<>>
    /\ trade_inferences = <<>>
    /\ \E trades \in SeqsUpTo(SummaryTrades, MaxSummaryTrades) :
           actual_trades = StoredTrades(trades)
    /\ trade_evaluations = <<>>
    /\ foreign_keys = FALSE
    /\ proc = [w \in Workers |-> Idle]
    /\ returned = <<>>
    /\ _scheduler_instance = <<>>
    /\ schedulers = <<>>

\* crud.get_performance_summary(db, start_date, end_date)
GetPerformanceSummary ==
    /\ returned = <<>>
    /\ \E period \in SummaryPeriods :
          returned' = <<[op         |-> "get_performance_summary",
                         start_date |-> period[1],
                         end_date   |-> period[2],
                         result     |-> get_performance_summary(actual_trades,
                                                                period[1], period[2])]>>
    /\ UNCHANGED <<engine_vars, scheduler_vars, trade_inferences, actual_trades, trade_evaluations,
                   foreign_keys, proc>>

NextSummary == GetPerformanceSummary

SpecSummary == InitSummary /\ [][NextSummary]_vars

-----------------------------------------------------------------------------
(* scripts/generate_report.py: the analysis of the evaluations of a        *)
(* period, the ranking and the suggestions.                                *)

\* the table after crud.create_trade_evaluation of each payload in turn, on
\* a database that does not check the references
RECURSIVE StoredEvaluations(_)
StoredEvaluations(payloads) ==
    IF payloads = <<>> THEN <<>>
    ELSE create_trade_evaluation(StoredEvaluations(SubSeq(payloads, 1, Len(payloads) - 1)),
                                 <<>>, FALSE, payloads[Len(payloads)]).table

RECURSIVE SumSeq(_)
SumSeq(numbers) == IF numbers = <<>> THEN 0 ELSE Head(numbers) + SumSeq(Tail(numbers))

\* [f(e) for e in evaluations if f(e) is not None]
NotNone(evaluations, Field(_)) ==
    LET kept == SelectSeq(evaluations, LAMBDA e : ~IsNone(Field(e)))
    IN  [i \in 1..Len(kept) |-> Val(Field(kept[i]))]

\* _analyze_evaluations: the averages are round(..., 2), kept in
\* hundredths (the logic score as 100 times the score, the potential in
\* the hundredths it is stored in); the completion rate is a fraction
_analyze_evaluations(evaluations) ==
    LET logic_scores == NotNone(evaluations, LAMBDA e : e.logic_evaluation_score)
        potential_pnls == NotNone(evaluations, LAMBDA e : e.potential_profit_loss)
        CountOf(score) == Len(SelectSeq(logic_scores, LAMBDA x : x = score))
    IN  IF evaluations = <<>>
        THEN [average_logic_score |-> 0, score_distribution |-> <<>>,
              average_potential_pnl |-> 0, evaluation_completion_rate |-> Ratio(0, 1)]
        ELSE [average_logic_score |->
                  IF logic_scores # <<>>
                  THEN RoundDiv(100 * SumSeq(logic_scores), Len(logic_scores))
                  ELSE 0,
              score_distribution |->
                  IF logic_scores # <<>>
                  THEN [score \in 1..5 |-> CountOf(score)]
                  ELSE <<>>,
              average_potential_pnl |->
                  IF potential_pnls # <<>>
                  THEN RoundDiv(SumSeq(potential_pnls), Len(potential_pnls))
                  ELSE 0,
              evaluation_completion_rate |->
                  Ratio(Len(logic_scores) * 100, Len(evaluations))]

\* max(numbers) and min(numbers) of a non-empty list
MaxOf(numbers) ==
    CHOOSE m \in {numbers[i] : i \in 1..Len(numbers)} :
        \A i \in 1..Len(numbers) : numbers[i] <= m

MinOf(numbers) ==
    CHOOSE m \in {numbers[i] : i \in 1..Len(numbers)} :
        \A i \in 1..Len(numbers) : numbers[i] >= m

\* composite_score: 0.6 * (score - 1) / 4 + 0.4 * normalized_pnl, as the
\* exact fraction
composite_score(evaluation, scored_evaluations) ==
    LET pnls == [i \in 1..Len(scored_evaluations) |->
                    Val(scored_evaluations[i].potential_profit_loss)]
        max_pnl == MaxOf(pnls)
        min_pnl == MinOf(pnls)
        score == Val(evaluation.logic_evaluation_score)
        pnl == Val(evaluation.potential_profit_loss)
    IN  IF max_pnl # min_pnl
        THEN Ratio(3 * (score - 1) * (max_pnl - min_pnl) + 8 * (pnl - min_pnl),
                   20 * (max_pnl - min_pnl))
        ELSE Ratio(3 * (score - 1) + 4, 20)

\* x put into the descending list s behind every entry of at least its
\* composite score
RECURSIVE InsertByComposite(_, _, _)
InsertByComposite(s, x, scored_evaluations) ==
    IF s = <<>> THEN <<x>>
    ELSE IF Less(composite_score(Head(s), scored_evaluations),
                 composite_score(x, scored_evaluations))
         THEN <<x>> \o s
         ELSE <<Head(s)>> \o InsertByComposite(Tail(s), x, scored_evaluations)

\* sorted(scored_evaluations, key=composite_score, reverse=True)
RECURSIVE SortedByComposite(_, _)
SortedByComposite(scored_evaluations, n) ==
    IF n = 0 THEN <<>>
    ELSE InsertByComposite(SortedByComposite(scored_evaluations, n - 1),
                           scored_evaluations[n], scored_evaluations)

SummaryCut == 100

\* summary[:100] + "..." if len(summary) > 100 else summary
CutSummary(summary) ==
    IF Len(summary) > SummaryCut
    THEN SubSeq(summary, 1, SummaryCut) \o <<".", ".", ".">>
    ELSE summary

\* _get_top_performing_inferences: [raised, top]; len() of a summary that
\* is None raises TypeError, and nothing is returned
_get_top_performing_inferences(evaluations, limit) ==
    LET scored_evaluations ==
            SelectSeq(evaluations, LAMBDA e : /\ ~IsNone(e.logic_evaluation_score)
                                              /\ ~IsNone(e.potential_profit_loss))
        sorted == SortedByComposite(scored_evaluations, Len(scored_evaluations))
        top_evaluations == SubSeq(sorted, 1, Min2(limit, Len(sorted)))
    IN  IF scored_evaluations = <<>> THEN [raised |-> FALSE, top |-> <<>>]
        ELSE IF \E k \in 1..Len(top_evaluations) :
                    IsNone(top_evaluations[k].evaluation_summary)
        THEN [raised |-> TRUE, top |-> <<>>]
        ELSE [raised |-> FALSE,
              top |-> [k \in 1..Len(top_evaluations) |->
                          [inference_id  |-> top_evaluations[k].inference_id,
                           logic_score   |-> Val(top_evaluations[k].logic_evaluation_score),
                           potential_pnl |-> Val(top_evaluations[k].potential_profit_loss),
                           summary       |->
                               CutSummary(Val(top_evaluations[k].evaluation_summary))]]]

\* fault variant: the first test taken as win_rate <= 50
SuggestionsAtHalfOrLess(performance, evaluations) ==
    LET evaluation_details == _analyze_evaluations(evaluations)
        suggestions ==
            (IF ~Less(Ratio(50, 1), performance.win_rate)
             THEN <<"improve_entry_timing">> ELSE <<>>)
            \o (IF evaluation_details.average_logic_score < 300
                THEN <<"include_market_analysis">> ELSE <<>>)
            \o (IF Less(performance.profit_factor, Ratio(12, 10))
                THEN <<"improve_risk_management">> ELSE <<>>)
            \o (IF Less(evaluation_details.evaluation_completion_rate, Ratio(80, 1))
                THEN <<"run_evaluations_regularly">> ELSE <<>>)
    IN  IF suggestions # <<>> THEN suggestions ELSE <<"performing_well">>

\* _generate_improvement_suggestions: the suggestions in the order of the
\* four tests, or the one message that all is well
_generate_improvement_suggestions(performance, evaluations) ==
    LET evaluation_details == _analyze_evaluations(evaluations)
        suggestions ==
            (IF Less(performance.win_rate, Ratio(50, 1))
             THEN <<"improve_entry_timing">> ELSE <<>>)
            \o (IF evaluation_details.average_logic_score < 300
                THEN <<"include_market_analysis">> ELSE <<>>)
            \o (IF Less(performance.profit_factor, Ratio(12, 10))
                THEN <<"improve_risk_management">> ELSE <<>>)
            \o (IF Less(evaluation_details.evaluation_completion_rate, Ratio(80, 1))
                THEN <<"run_evaluations_regularly">> ELSE <<>>)
    IN  IF suggestions # <<>> THEN suggestions ELSE <<"performing_well">>

MaxRankedEvaluations == 3

ShortSummary == <<"o", "k">>

\* evaluations as the engine or a client of POST /evaluations/ leaves
\* them: every field but inference_id may be missing
RankedEvaluationFields ==
    { [logic_evaluation_score |-> score, logic_evaluation_comment |-> None,
       potential_profit_loss |-> pnl, evaluation_summary |-> summary] :
      score \in {None, Some(2), Some(5)},
      pnl \in {None, Some(0), Some(4000), Some(6400)},
      summary \in {None, Some(ShortSummary), Some(Dots(SummaryCut + 1))} }

\* the payloads of the evaluations of inferences 1, 2, ... in this order
WithInferenceIds(fields) ==
    [i \in 1..Len(fields) |->
        [inference_id             |-> i,
         logic_evaluation_score   |-> fields[i].logic_evaluation_score,
         logic_evaluation_comment |-> fields[i].logic_evaluation_comment,
         potential_profit_loss    |-> fields[i].potential_profit_loss,
         evaluation_summary       |-> fields[i].evaluation_summary]]

InitRanking ==
    /\ engine_text = <<>>
    /\ engine_out = <<>>
    /\ trade_inferences = <<>>
    /\ actual_trades = <<>>
    /\ \E fields \in SeqsUpTo(RankedEvaluationFields, MaxRankedEvaluations) :
           trade_evaluations = StoredEvaluations(WithInferenceIds(fields))
    /\ foreign_keys = FALSE
    /\ proc = [w \in Workers |-> Idle]
    /\ returned = <<>>
    /\ _scheduler_instance = <<>>
    /\ schedulers = <<>>

\* _get_top_performing_inferences(db, evaluations, limit) of the stored
\* evaluations
GetTopPerformingInferences ==
    /\ returned = <<>>
    /\ \E limit \in {2, 3} :
          returned' = <<[op     |-> "_get_top_performing_inferences",
                         limit  |-> limit,
                         result |-> _get_top_performing_inferences(trade_evaluations,
                                                                   limit)]>>
    /\ UNCHANGED <<engine_vars, scheduler_vars, trade_inferences, actual_trades, trade_evaluations,
                   foreign_keys, proc>>

NextRanking == GetTopPerformingInferences

SpecRanking == InitRanking /\ [][NextRanking]_vars

-----------------------------------------------------------------------------
(* The suggestions of a report: trades and evaluations are stored, then    *)
(* the summary of the trades and the evaluations are handed to             *)
(* _generate_improvement_suggestions.                                      *)

\* the trade with this profit_loss
SettledTrade(profit_loss) ==
    [trade_time |-> 12, pair |-> USDJPY, action |-> BUY, entry_price |-> 150,
     exit_price |-> None, amount |-> 10000, profit_loss |-> Some(profit_loss),
     inference_id |-> None]

\* trade histories on both sides of the two thresholds of the summary
ReportTradeLists ==
    { <<>>,
      <<SettledTrade(500)>>,
      <<SettledTrade(-1000)>>,
      <<SettledTrade(500), SettledTrade(-1000)>>,
      <<SettledTrade(600), SettledTrade(-500)>>,
      <<SettledTrade(3000), SettledTrade(-1000), SettledTrade(-1000)>> }

MaxSuggestionEvaluations == 5

\* evaluations with and without a logic score
SuggestionEvaluationFields ==
    { [logic_evaluation_score |-> score, logic_evaluation_comment |-> None,
       potential_profit_loss |-> Some(4000),
       evaluation_summary |-> Some(ShortSummary)] :
      score \in {None, Some(2), Some(3), Some(4)} }

InitSuggestions ==
    /\ engine_text = <<>>
    /\ engine_out = <<>>
    /\ trade_inferences = <<>>
    /\ \E trades \in ReportTradeLists : actual_trades = StoredTrades(trades)
    /\ \E fields \in SeqsUpTo(SuggestionEvaluationFields, MaxSuggestionEvaluations) :
           trade_evaluations = StoredEvaluations(WithInferenceIds(fields))
    /\ foreign_keys = FALSE
    /\ proc = [w \in Workers |-> Idle]
    /\ returned = <<>>
    /\ _scheduler_instance = <<>>
    /\ schedulers = <<>>

\* generate_report: the performance summary of the period, then
\* _generate_improvement_suggestions(performance_summary, evaluations)
GenerateImprovementSuggestions ==
    /\ returned = <<>>
    /\ LET performance_summary == get_performance_summary(actual_trades, 0, Now)
       IN  returned' = <<[op          |-> "_generate_improvement_suggestions",
                          performance |-> performance_summary,
                          result      |-> _generate_improvement_suggestions(
                                              performance_summary, trade_evaluations)]>>
    /\ UNCHANGED <<engine_vars, scheduler_vars, trade_inferences, actual_trades, trade_evaluations,
                   foreign_keys, proc>>

NextSuggestions == GenerateImprovementSuggestions

SpecSuggestions == InitSuggestions /\ [][NextSuggestions]_vars

-----------------------------------------------------------------------------
(* The creation of trades: POST /trades/ and import_trades with the        *)
(* amounts a request body or a trade file may carry (any float, or no      *)
(* amount at all in a file), next to the creation of inferences.           *)

TradeAmounts == {10000, 0, -10000}

AmountPayloads ==
    { [trade_time |-> 12, pair |-> USDJPY, action |-> BUY, entry_price |-> 150,
       exit_price |-> None, amount |-> a, profit_loss |-> Some(500),
       inference_id |-> None] :
      a \in TradeAmounts }

AmountFileRecords ==
    { [timestamp |-> Some(12), pair |-> Some(<<"u","s","d","/","j","p","y">>),
       action |-> Some(<<"b","u","y">>),
       entry_price |-> Some(150), exit_price |-> None, amount |-> a,
       profit_loss |-> Some(-1000)] :
      a \in {None} \cup {Some(x) : x \in TradeAmounts} }

NextTrades ==
    \/ \E w \in Workers, inference \in InferencePayloads :
           CreateInferenceCheck(w, inference)
    \/ \E w \in Workers : CreateInferenceInsert(w)
    \/ \E w \in Workers, trade \in AmountPayloads : CreateTrade(w, trade)
    \/ \E w \in Workers, record \in AmountFileRecords : ImportTradesMatch(w, record)
    \/ \E w \in Workers : ImportTradesInsert(w)

SpecTrades == Init /\ [][NextTrades]_vars

-----------------------------------------------------------------------------
(* The evaluation sweep kept running: the inferences are stored, none is   *)
(* added, and the hourly job (and whoever runs the script by hand) starts  *)
(* sweep after sweep; a sweep that has started goes on to its end.         *)

\* the inferences a collector or a client of POST /inferences/ may have
\* stored; the third has an action whose confidence is JSON null
SweepInferences ==
    InferencePayloads \cup
    { [slack_message_ts |-> "ts3", inference_time |-> 12, prompt |-> "p3",
       raw_response |-> ResponseRich,
       inferred_actions |->
           Some(<< [action |-> BUY, pair |-> USDJPY, confidence_raw |-> "null"] >>)] }

InitSweep ==
    /\ engine_text = <<>>
    /\ engine_out = <<>>
    /\ \E payloads \in SeqsUpTo(SweepInferences, MaxInferences) :
           trade_inferences = StoredInferences(payloads)
    /\ actual_trades = <<>>
    /\ trade_evaluations = <<>>
    /\ foreign_keys \in BOOLEAN
    /\ proc = [w \in Workers |-> Idle]
    /\ returned = <<>>
    /\ _scheduler_instance = <<>>
    /\ schedulers = <<>>

SweepQuery(w) ==
    \E max_evaluations \in 1..MaxInferences : RunEvaluationsQuery(w, max_evaluations)

NextSweep ==
    \/ \E w \in Workers : SweepQuery(w)
    \/ \E w \in Workers : RunEvaluationsInsert(w)

SweepFairness ==
    \A w \in Workers :
        /\ WF_vars(SweepQuery(w))
        /\ WF_vars(RunEvaluationsInsert(w))

SpecSweep == InitSweep /\ [][NextSweep]_vars /\ SweepFairness

-----------------------------------------------------------------------------
(* The scheduler (app/scheduler.py): the module's scheduler instance, the  *)
(* five jobs start_scheduler adds to it, and the dispatch of their run     *)
(* times.  A scheduler wakes up when a run time is due; when it wakes up   *)
(* late, several run times of a job are due at once.  The store stays as   *)
(* it was constructed.                                                     *)

MaxSchedulers == 2

MaxDue == 2

JobIds ==
    {"collect_inferences", "run_evaluations", "daily_report", "weekly_report",
     "monthly_report"}

\* fault variant: a job that two executions may run at once
AddJobTwoInstances(id) == [id |-> id, max_instances |-> 2, coalesce |-> TRUE]

\* self.scheduler.add_job(id=id, ..., max_instances=1, coalesce=True)
add_job(id) == [id |-> id, max_instances |-> 1, coalesce |-> TRUE]

\* ForexEvaluationScheduler(): a started BackgroundScheduler without jobs
NewScheduler ==
    [state     |-> "running",
     jobs      |-> {},
     due       |-> [j \in JobIds |-> 0],
     executing |-> [j \in JobIds |-> <<>>]]

\* a scheduler after shutdown() has returned
StoppedScheduler == [NewScheduler EXCEPT !.state = "stopped"]

\* fault variant: a new instance at every call
GetSchedulerAlwaysNew(instance, all) ==
    [instance |-> Some(Len(all) + 1), schedulers |-> Append(all, NewScheduler)]

\* get_scheduler(): the instance, constructed when there is none
get_scheduler(instance, all) ==
    IF IsNone(instance)
    THEN [instance |-> Some(Len(all) + 1), schedulers |-> Append(all, NewScheduler)]
    ELSE [instance |-> instance, schedulers |-> all]

\* a stop_scheduler() call is waiting in shutdown() for the executions
Stopping == \E i \in 1..Len(schedulers) : schedulers[i].state = "stopping"

SchedulerStep(op, result) ==
    /\ returned' = <<[op |-> op, result |-> result]>>
    /\ UNCHANGED <<engine_vars, trade_inferences, actual_trades, trade_evaluations,
                   foreign_keys, proc>>

SchedulerInternalStep ==
    /\ returned' = <<>>
    /\ UNCHANGED <<engine_vars, trade_inferences, actual_trades, trade_evaluations,
                   foreign_keys, proc, _scheduler_instance>>

\* GET /scheduler/status: get_scheduler(), then its job status
GetScheduler ==
    /\ ~Stopping
    /\ IsNone(_scheduler_instance) => Len(schedulers) < MaxSchedulers
    /\ LET got == get_scheduler(_scheduler_instance, schedulers)
       IN  /\ Len(got.schedulers) <= MaxSchedulers
           /\ _scheduler_instance' = got.instance
           /\ schedulers' = got.schedulers
           /\ SchedulerStep("get_scheduler", Val(got.instance))

\* start_scheduler(): get_scheduler(), then the five add_job calls; the
\* first add_job of an id the job store already has raises ConflictingIdError
StartScheduler ==
    /\ ~Stopping
    /\ LET got == get_scheduler(_scheduler_instance, schedulers)
           i == Val(got.instance)
       IN  /\ Len(got.schedulers) <= MaxSchedulers
           /\ _scheduler_instance' = got.instance
           /\ IF got.schedulers[i].jobs # {}
              THEN /\ schedulers' = got.schedulers
                   /\ SchedulerStep("start_scheduler", "raised")
              ELSE /\ schedulers' =
                          [got.schedulers EXCEPT
                              ![i].jobs = {add_job(id) : id \in JobIds}]
                   /\ SchedulerStep("start_scheduler", i)

\* stop_scheduler(): nothing without an instance; otherwise shutdown()
\* stops the dispatch and waits for the executions in flight
StopScheduler ==
    /\ ~Stopping
    /\ IF IsNone(_scheduler_instance)
       THEN /\ UNCHANGED scheduler_vars
            /\ SchedulerStep("stop_scheduler", "no_instance")
       ELSE /\ schedulers' =
                   [schedulers EXCEPT
                       ![Val(_scheduler_instance)].state = "stopping",
                       ![Val(_scheduler_instance)].due = [j \in JobIds |-> 0]]
            /\ SchedulerInternalStep

\* shutdown() returns once no execution is in flight; the instance is cleared
StopSchedulerReturn ==
    /\ \E i \in 1..Len(schedulers) :
          /\ schedulers[i].state = "stopping"
          /\ \A j \in JobIds : schedulers[i].executing[j] = <<>>
          /\ schedulers' = [schedulers EXCEPT ![i] = StoppedScheduler]
    /\ _scheduler_instance' = None
    /\ SchedulerStep("stop_scheduler", "stopped")

\* a run time of a job's trigger passes
RunTimeDue ==
    /\ \E i \in 1..Len(schedulers) : \E job \in schedulers[i].jobs :
          /\ schedulers[i].state = "running"
          /\ schedulers[i].due[job.id] < MaxDue
          /\ schedulers' =
                 [schedulers EXCEPT
                     ![i].due[job.id] = schedulers[i].due[job.id] + 1]
    /\ SchedulerInternalStep

\* the execution of a job made of n due run times
Execution(job, n) == [run_times |-> IF job.coalesce THEN 1 ELSE n, due |-> n]

\* the scheduler wakes up: of every job with run times due, one execution
\* is submitted for them unless max_instances executions are in flight, and
\* the job's next run time is set after now
ProcessJobs ==
    /\ \E i \in 1..Len(schedulers) :
          /\ schedulers[i].state = "running"
          /\ \E j \in JobIds : schedulers[i].due[j] > 0
          /\ schedulers' =
                 [schedulers EXCEPT
                     ![i].due = [j \in JobIds |-> 0],
                     ![i].executing =
                         [j \in JobIds |->
                             LET n == schedulers[i].due[j]
                                 running == schedulers[i].executing[j]
                             IN  IF n = 0 THEN running
                                 ELSE LET job == CHOOSE x \in schedulers[i].jobs :
                                                     x.id = j
                                      IN  IF Len(running) < job.max_instances
                                          THEN Append(running, Execution(job, n))
                                          ELSE running]]
    /\ SchedulerInternalStep

\* a job function returns: its subprocess has ended or has timed out
JobEnds ==
    /\ \E i \in 1..Len(schedulers) : \E j \in JobIds :
          /\ schedulers[i].executing[j] # <<>>
          /\ schedulers' =
                 [schedulers EXCEPT ![i].executing[j] = Tail(schedulers[i].executing[j])]
    /\ SchedulerInternalStep

InitScheduler ==
    /\ engine_text = <<>>
    /\ engine_out = <<>>
    /\ StoreEmpty

NextScheduler ==
    \/ GetScheduler
    \/ StartScheduler
    \/ StopScheduler
    \/ StopSchedulerReturn
    \/ RunTimeDue
    \/ ProcessJobs
    \/ JobEnds

SpecScheduler == InitScheduler /\ [][NextScheduler]_vars

-----------------------------------------------------------------------------
(* Properties of the store.                                                *)

\* the last step returned this to the caller of handler op
Returned(op, result) ==
    /\ returned # <<>>
    /\ returned[1].op = op
    /\ returned[1].result = result

InferenceStored(inference_id) ==
    \E i \in 1..Len(trade_inferences) : trade_inferences[i].id = inference_id

EvaluationStoredFor(inference_id) ==
    \E e \in 1..Len(trade_evaluations) :
        trade_evaluations[e].inference_id = inference_id

\* C1: whatever sweeps, re-evaluations and POST /evaluations/ calls have
\* run, no two stored evaluations belong to the same inference.
C1_AtMostOneEvaluation ==
    \A i, j \in 1..Len(trade_evaluations) :
        trade_evaluations[i].inference_id = trade_evaluations[j].inference_id
            => i = j

\* a re-evaluation has replaced an evaluation (the new row has an id no
\* first evaluation gets) while every inference has its evaluation
C1_Reevaluated ==
    /\ returned # <<>>
    /\ returned[1].op = "re_evaluate_inference"
    /\ returned[1].result = TRUE
    /\ Len(trade_evaluations) = MaxInferences
    /\ \E e \in 1..Len(trade_evaluations) : trade_evaluations[e].id > MaxInferences

\* C2: POST /inferences/ that finds its slack_message_ts stored answers
\* 400 and leaves the inferences as they are; with a fresh one it goes on
\* to the insert, and the insert of a still fresh one answers 200 and adds
\* exactly that inference.
C2_DuplicateInferenceRejected ==
    [][\A w \in Workers :
          /\ \A inference \in InferencePayloads :
                CreateInferenceCheck(w, inference) =>
                    IF \E i \in 1..Len(trade_inferences) :
                           trade_inferences[i].slack_message_ts
                               = inference.slack_message_ts
                    THEN /\ returned' # <<>>
                         /\ returned'[1].op = "create_inference"
                         /\ returned'[1].result = 400
                         /\ trade_inferences' = trade_inferences
                    ELSE /\ returned' = <<>>
                         /\ proc'[w].pc = "ci_insert"
          /\ ( /\ CreateInferenceInsert(w)
               /\ \A i \in 1..Len(trade_inferences) :
                      trade_inferences[i].slack_message_ts
                          # proc[w].loc.inference.slack_message_ts )
             => /\ returned'[1].op = "create_inference"
                /\ returned'[1].result = 200
                /\ Len(trade_inferences') = Len(trade_inferences) + 1
                /\ SubSeq(trade_inferences', 1, Len(trade_inferences)) = trade_inferences
                /\ trade_inferences'[Len(trade_inferences')].slack_message_ts
                       = proc[w].loc.inference.slack_message_ts
      ]_vars

\* a duplicate has just been answered 400 while the first one is stored
C2_DuplicateAnswered400 ==
    /\ Returned("create_inference", 400)
    /\ Len(trade_inferences) >= 1

\* C3: POST /evaluations/ for an inference_id that no stored inference has
\* is answered with an error and stores nothing, and every stored
\* evaluation's inference_id is the id of a stored inference.
C3_EvaluationHasInference ==
    /\ [](\A e \in 1..Len(trade_evaluations) :
              InferenceStored(trade_evaluations[e].inference_id))
    /\ [][\A w \in Workers, evaluation \in EvaluationPayloads :
              ( /\ CreateEvaluationCheck(w, evaluation)
                /\ ~InferenceStored(evaluation.inference_id) )
              => /\ returned' # <<>>
                 /\ returned'[1].op = "create_evaluation"
                 /\ returned'[1].result = 404
                 /\ trade_evaluations' = trade_evaluations
                 /\ proc'[w].pc = "idle"
      ]_vars

\* an evaluation for a missing inference has just been refused while
\* evaluations of stored inferences exist
C3_MissingParentRefused ==
    /\ Returned("create_evaluation", 404)
    /\ Len(trade_evaluations) >= 1

\* C4: POST /evaluations/ that finds an evaluation stored for its (stored)
\* inference answers 400 and leaves the evaluations as they are.
C4_DuplicateEvaluationRejected ==
    [][\A w \in Workers, evaluation \in EvaluationPayloads :
          ( /\ CreateEvaluationCheck(w, evaluation)
            /\ InferenceStored(evaluation.inference_id)
            /\ EvaluationStoredFor(evaluation.inference_id) )
          => /\ returned' # <<>>
             /\ returned'[1].op = "create_evaluation"
             /\ returned'[1].result = 400
             /\ trade_evaluations' = trade_evaluations
             /\ proc'[w].pc = "idle"
      ]_vars

\* a second evaluation has just been answered 400 and the stored one, made
\* by the engine, is still there
C4_SecondEvaluationAnswered400 ==
    /\ Returned("create_evaluation", 400)
    /\ \E e \in 1..Len(trade_evaluations) :
           trade_evaluations[e].logic_evaluation_comment # Some(<<"manual">>)

\* C5: every stored trade's inference_id is absent or the id of a stored
\* inference.
C5_TradeReferenceValid ==
    \A t \in 1..Len(actual_trades) :
        \/ IsNone(actual_trades[t].inference_id)
        \/ InferenceStored(Val(actual_trades[t].inference_id))

\* the distance in time between an inference and a trade
Distance(inference, trade_time) ==
    IF inference.inference_time >= trade_time
    THEN inference.inference_time - trade_time
    ELSE trade_time - inference.inference_time

\* the stored inferences within w hours of trade_time, both ends included
InWindow(trade_time, w) ==
    {i \in 1..Len(trade_inferences) :
        Distance(trade_inferences[i], trade_time) <= w}

\* C13: the inference the importer's query finds for a trade lies in the
\* window of two hours around the trade's time and no inference of the
\* window is nearer to the trade; the query finds none exactly when the
\* window holds no inference.
C13_ClosestInWindow ==
    [][\A w \in Workers :
          (At(w, "idle") /\ proc'[w].pc = "im_loop") =>
              LET trade == proc'[w].loc.trade_create
                  window == InWindow(trade.trade_time, TimeWindowHours)
              IN  IF window = {}
                  THEN IsNone(trade.inference_id)
                  ELSE /\ ~IsNone(trade.inference_id)
                       /\ \E i \in window :
                             /\ trade_inferences[i].id = Val(trade.inference_id)
                             /\ \A j \in window :
                                   Distance(trade_inferences[i], trade.trade_time)
                                       <= Distance(trade_inferences[j], trade.trade_time)]_vars

-----------------------------------------------------------------------------
(* Properties of the inference engine.                                     *)

Parsed == engine_out # <<>> /\ engine_out[1].op = "parse"

Estimated ==
    engine_out # <<>> /\ engine_out[1].op \in {"confidence", "confidence_added"}

\* C6: every returned entry has the action BUY or SELL and a pair of
\* exactly six alphabetic characters, and no two entries have the same pair.
C6_EntriesWellFormed ==
    Parsed =>
        LET result == engine_out[1].result
        IN  /\ \A k \in 1..Len(result) :
                   /\ result[k].action \in {BUY, SELL}
                   /\ Len(result[k].pair) = 6
                   /\ \A j \in 1..6 : IsAlpha(result[k].pair[j])
            /\ \A j, k \in 1..Len(result) :
                   result[j].pair = result[k].pair => j = k

\* several pairs are returned and a pair that matched twice is returned once
C6_DuplicatePairDropped ==
    /\ Parsed
    /\ Len(engine_out[1].result) >= 2
    /\ Len(engine_out[1].actions) > Len(engine_out[1].result)

\* the candidate that represents its pair: none of the same pair has a
\* higher confidence, and none of an equal confidence comes before it
BestCandidate(actions, pair) ==
    CHOOSE c \in 1..Len(actions) :
        /\ actions[c].pair = pair
        /\ \A d \in 1..Len(actions) :
               actions[d].pair = pair =>
                   \/ actions[c].confidence > actions[d].confidence
                   \/ actions[c].confidence = actions[d].confidence /\ c <= d

\* C7: the returned list descends in confidence, and the entry of a pair is
\* that pair's candidate of the highest confidence, the first of them in
\* the order the candidates were found (pattern by pattern, then by
\* position) when several have it.
C7_SortedBestPerPair ==
    Parsed =>
        LET actions == engine_out[1].actions
            result  == engine_out[1].result
        IN  /\ \A j, k \in 1..Len(result) :
                   j < k => result[j].confidence >= result[k].confidence
            /\ \A k \in 1..Len(result) :
                   /\ \E c \in 1..Len(actions) : actions[c].pair = result[k].pair
                   /\ result[k].confidence
                          = actions[BestCandidate(actions, result[k].pair)].confidence
                   /\ result[k].action
                          = actions[BestCandidate(actions, result[k].pair)].action
            /\ \A c \in 1..Len(actions) :
                   \E k \in 1..Len(result) : result[k].pair = actions[c].pair

\* a pair has two candidates of equal confidence, raised by a positive
\* phrase, and of different actions, the one found first standing later in
\* the text
C7_TieAndOrder ==
    /\ Parsed
    /\ \E c, d \in 1..Len(engine_out[1].actions) :
           LET actions == engine_out[1].actions
           IN  /\ c < d
               /\ actions[c].pair = actions[d].pair
               /\ actions[c].confidence = actions[d].confidence
               /\ actions[c].confidence > 50
               /\ actions[c].action # actions[d].action
               /\ actions[c].position_in_text > actions[d].position_in_text

\* the window of a match span: the characters from 100 before the start of
\* the match to 100 after its end, as far as the text goes, in lower case
Window(text, start_pos, end_pos) ==
    LowerStr([i \in 1..(Min2(Len(text), end_pos + 100) - Max2(0, start_pos - 100))
                  |-> text[Max2(0, start_pos - 100) + i]])

\* where a phrase occurs in a window
Occurrences(window, phrase) ==
    {i \in 1..(Len(window) - Len(phrase) + 1) :
        \A j \in 1..Len(phrase) : window[i + j - 1] = phrase[j]}

\* how many of the phrases occur in the window
PhrasesPresent(window, phrases) ==
    Cardinality({k \in 1..Len(phrases) : Occurrences(window, phrases[k]) # {}})

\* how many occurrences of the phrases the window has
RECURSIVE OccurrencesOfAll(_, _, _)
OccurrencesOfAll(window, phrases, k) ==
    IF k > Len(phrases) THEN 0
    ELSE Cardinality(Occurrences(window, phrases[k]))
         + OccurrencesOfAll(window, phrases, k + 1)

Clamped(x) == IF x < 0 THEN 0 ELSE IF x > 100 THEN 100 ELSE x

\* C8 as amended: the confidence of a match is 0.5 plus 0.2 for every
\* positive phrase that occurs in the window and minus 0.15 for every
\* uncertainty phrase that occurs in it, however often it occurs, clamped
\* to [0, 1] at the end.
C8_ConfidencePerPhrase ==
    Estimated =>
        LET window == Window(engine_text, engine_out[1].start_pos,
                             engine_out[1].end_pos)
        IN  engine_out[1].confidence
                = Clamped(50 + 20 * PhrasesPresent(window, positive_keywords)
                             - 15 * PhrasesPresent(window, negative_keywords))

\* C8 as stated: 0.2 and 0.15 for every occurrence, a phrase that occurs
\* twice in the window counting twice.
C8_ConfidencePerOccurrence ==
    Estimated =>
        LET window == Window(engine_text, engine_out[1].start_pos,
                             engine_out[1].end_pos)
        IN  engine_out[1].confidence
                = Clamped(50 + 20 * OccurrencesOfAll(window, positive_keywords, 1)
                             - 15 * OccurrencesOfAll(window, negative_keywords, 1))

\* a positive phrase occurs twice in the window and nothing else does: the
\* confidence is that of one positive phrase
C8_TwiceInWindowOnceCounted ==
    /\ Estimated
    /\ engine_out[1].confidence = 70
    /\ LET window == Window(engine_text, engine_out[1].start_pos,
                            engine_out[1].end_pos)
       IN  /\ Cardinality(Occurrences(window, STRONG_W)) = 2
           /\ PhrasesPresent(window, negative_keywords) = 0

\* C9: the confidence is within [0, 1], and with one more positive word in
\* the window and the window otherwise unchanged it is not lower than it
\* was.
C9_BoundedAndMonotone ==
    /\ Estimated => engine_out[1].confidence \in 0..100
    /\ (engine_out # <<>> /\ engine_out[1].op = "confidence_added")
           => engine_out[1].confidence >= engine_out[1].previous

\* a word has been added next to uncertainty phrases and raised the
\* confidence from its lower limit
C9_RaisedFromZero ==
    /\ engine_out # <<>>
    /\ engine_out[1].op = "confidence_added"
    /\ engine_out[1].previous = 0
    /\ engine_out[1].confidence > 0

-----------------------------------------------------------------------------
(* Properties of the logic score.                                          *)

Passed(condition) == IF condition THEN 1 ELSE 0

\* C10: the score is 1 plus the number of checks passed: three market
\* keywords or more in the response, two technical keywords or more, two
\* risk keywords or more, 200 characters or more together with a causal
\* connective; it lies in 1..5.
C10_ScoreIsOnePlusPassedChecks ==
    (engine_out # <<>> /\ engine_out[1].op = "logic") =>
        LET response == LowerStr(engine_text)
        IN  /\ engine_out[1].score \in 1..5
            /\ engine_out[1].score
                   = 1 + Passed(PhrasesPresent(response, market_keywords) >= 3)
                       + Passed(PhrasesPresent(response, technical_keywords) >= 2)
                       + Passed(PhrasesPresent(response, risk_keywords) >= 2)
                       + Passed(/\ Len(response) >= 200
                                /\ PhrasesPresent(response, causal_connectives) >= 1)

\* a response one character short of 200 passes the three keyword checks
\* and has a causal connective: the score is 4
C10_OneCharacterShort ==
    /\ engine_out # <<>>
    /\ engine_out[1].op = "logic"
    /\ Len(engine_text) = 199
    /\ PhrasesPresent(LowerStr(engine_text), causal_connectives) >= 1
    /\ engine_out[1].score = 4

\* the comments each check may leave, in the order the checks run
MarketComments == {"market_sufficient", "market_basic", "market_insufficient"}

TechnicalComments == {"technical_multiple", "technical_single", "technical_insufficient"}

RiskComments == {"risk_sufficient", "risk_basic", "risk_insufficient"}

ClarityComments == {"clarity_clear", "clarity_present", "clarity_insufficient"}

\* C11: the comment is four parts joined by "; ", one of the market check,
\* one of the technical check, one of the risk check and one of the clarity
\* check, in this order, whatever the score; the empty response scores 1
\* and gets the four 'insufficient' parts.
C11_FourCommentsInOrder ==
    (engine_out # <<>> /\ engine_out[1].op = "logic") =>
        LET comment == engine_out[1].comment
        IN  /\ Len(comment) = 7
            /\ \A i \in {2, 4, 6} : comment[i] = "; "
            /\ comment[1] \in MarketComments
            /\ comment[3] \in TechnicalComments
            /\ comment[5] \in RiskComments
            /\ comment[7] \in ClarityComments
            /\ engine_text = <<>> =>
                   /\ engine_out[1].score = 1
                   /\ comment = <<"market_insufficient", "; ", "technical_insufficient", "; ",
                                  "risk_insufficient", "; ", "clarity_insufficient">>

\* the empty response has been scored: 1, with four comments
C11_EmptyResponseScored ==
    /\ engine_out # <<>>
    /\ engine_out[1].op = "logic"
    /\ engine_text = <<>>
    /\ engine_out[1].score = 1
    /\ Len(engine_out[1].comment) = 7

-----------------------------------------------------------------------------
(* Properties of the evaluation engine.                                    *)

Evaluated == returned # <<>> /\ returned[1].op = "evaluate_inference"

\* C12: the potential profit/loss is 0 when the inference has no action
\* list or an empty one; otherwise it is 80 times the confidence of the
\* first action (amounts and confidences in hundredths), whatever the
\* later actions are.
C12_PotentialFromFirstAction ==
    Evaluated =>
        LET actions == returned[1].inference.inferred_actions
            potential == returned[1].result.potential_profit_loss
        IN  /\ (IsNone(actions) \/ Val(actions) = <<>>) => potential = Some(0)
            /\ (/\ ~IsNone(actions)
                /\ Val(actions) # <<>>
                /\ "confidence" \in DOMAIN Val(actions)[1])
                   => potential = Some(80 * Val(actions)[1].confidence)

\* two actions, the second more confident than the first: the potential
\* is that of the first
C12_LaterActionIgnored ==
    /\ Evaluated
    /\ ~IsNone(returned[1].inference.inferred_actions)
    /\ LET actions == Val(returned[1].inference.inferred_actions)
       IN  /\ Len(actions) = 2
           /\ actions[2].confidence > actions[1].confidence
           /\ returned[1].result.potential_profit_loss = Some(80 * actions[1].confidence)

\* the analysis of the related trades, as the summary carries it
AnalysisInSummary == Tail(Val(returned[1].result.evaluation_summary)[5])

\* the related trades that have a profit_loss, by their place
SettledRelated ==
    {i \in 1..Len(returned[1].trades) : ~IsNone(returned[1].trades[i].profit_loss)}

RECURSIVE SumOfRelated(_)
SumOfRelated(S) ==
    IF S = {} THEN 0
    ELSE LET i == CHOOSE x \in S : TRUE
         IN  Val(returned[1].trades[i].profit_loss) + SumOfRelated(S \ {i})

\* C21: for related trades of which none has a profit_loss the analysis
\* gives the number of trades as unsettled and no win rate; otherwise it
\* gives the number of trades, the number of settled ones, the win rate as
\* the share of the settled trades with a positive profit_loss (to a tenth
\* of a percent) and the sum of the profit_loss of the settled trades.
C21_AnalysisOfSettledTrades ==
    (Evaluated /\ returned[1].trades # <<>>) =>
        LET analysis == AnalysisInSummary
            trades == returned[1].trades
            settled == Cardinality(SettledRelated)
            won == Cardinality({i \in SettledRelated : Val(trades[i].profit_loss) > 0})
        IN  IF settled = 0
            THEN analysis = <<"executed_unsettled", Len(trades)>>
            ELSE /\ Len(analysis) = 8
                 /\ analysis[1] = "executed" /\ analysis[2] = Len(trades)
                 /\ analysis[3] = "settled" /\ analysis[4] = settled
                 /\ analysis[5] = "win_rate"
                 /\ 2 * (analysis[6] * settled - 1000 * won) <= settled
                 /\ 2 * (1000 * won - analysis[6] * settled) < settled
                 /\ analysis[7] = "total_pnl"
                 /\ analysis[8] = 100 * SumOfRelated(SettledRelated)

\* two related trades, neither settled: reported as unsettled
C21_AllUnsettled ==
    /\ Evaluated
    /\ Len(returned[1].trades) = 2
    /\ SettledRelated = {}
    /\ AnalysisInSummary = <<"executed_unsettled", 2>>

\* the parts the summary of an evaluation is to have, in order
ExpectedSummaryParts(score, potential, trades) ==
    << IF score >= 4 THEN <<"logic_excellent">>
       ELSE IF score = 3 THEN <<"logic_good">>
       ELSE <<"logic_needs_improvement">>,
       IF potential > 5000 THEN <<"high_potential">>
       ELSE IF potential > 0 /\ potential <= 5000 THEN <<"positive_potential">>
       ELSE <<"carries_risk">> >>
    \o (IF trades # <<>>
        THEN << <<"actual">> \o _analyze_actual_performance(trades) >>
        ELSE <<>>)
    \o (IF score < 3 THEN << <<"recommend_strengthening">> >> ELSE <<>>)

\* C20: the summary is, in this order, the logic phrase of the score's
\* bucket (4 and more, 3, less), the potential phrase (more than 50, more
\* than 0 up to 50, otherwise), the analysis of the related trades exactly
\* when there are related trades, and the recommendation exactly when the
\* score is below 3; the parts are joined by ". " and closed by ".".
C20_SummaryParts ==
    Evaluated =>
        LET result == returned[1].result
            summary == Val(result.evaluation_summary)
            expected == ExpectedSummaryParts(Val(result.logic_evaluation_score),
                                             Val(result.potential_profit_loss),
                                             returned[1].trades)
            n == Len(expected)
        IN  /\ Len(summary) = 2 * n
            /\ \A k \in 1..n : summary[2 * k - 1] = expected[k]
            /\ \A k \in 1..(n - 1) : summary[2 * k] = <<". ">>
            /\ summary[2 * n] = <<".">>

\* an inference with a low score, a high potential and related trades: the
\* summary has all four parts
C20_AllFourParts ==
    /\ Evaluated
    /\ returned[1].trades # <<>>
    /\ Val(returned[1].result.logic_evaluation_score) < 3
    /\ Val(returned[1].result.potential_profit_loss) > 5000
    /\ Len(Val(returned[1].result.evaluation_summary)) = 8

-----------------------------------------------------------------------------
(* Properties of the performance summary.                                  *)

Summarised == returned # <<>> /\ returned[1].op = "get_performance_summary"

\* the stored trades that have a profit_loss and a trade_time from
\* start_date to end_date, both included, by their place in the table
Counted(start_date, end_date) ==
    {i \in 1..Len(actual_trades) :
        /\ ~IsNone(actual_trades[i].profit_loss)
        /\ actual_trades[i].trade_time >= start_date
        /\ actual_trades[i].trade_time <= end_date}

CountedIn == Counted(returned[1].start_date, returned[1].end_date)

ProfitOf(i) == Val(actual_trades[i].profit_loss)

RECURSIVE SumOver(_)
SumOver(S) ==
    IF S = {} THEN 0
    ELSE LET i == CHOOSE x \in S : TRUE IN ProfitOf(i) + SumOver(S \ {i})

Winners == {i \in CountedIn : ProfitOf(i) > 0}

Losers == {i \in CountedIn : ProfitOf(i) < 0}

\* C14: when no trade of the period has a profit_loss, the summary is the
\* record of zeros, profit_factor 0.0 included.
C14_NothingSettledAllZero ==
    (Summarised /\ CountedIn = {}) =>
        LET r == returned[1].result
        IN  /\ r.total_trades = 0 /\ r.winning_trades = 0 /\ r.losing_trades = 0
            /\ r.win_rate = [num |-> 0, den |-> 1]
            /\ r.total_profit_loss = 0
            /\ r.average_profit = [num |-> 0, den |-> 1]
            /\ r.average_loss = [num |-> 0, den |-> 1]
            /\ r.profit_factor = [num |-> 0, den |-> 1]

\* trades are stored, but the ones in the period are all unsettled: zeros
C14_OnlyUnsettledInPeriod ==
    /\ Summarised
    /\ CountedIn = {}
    /\ \E i \in 1..Len(actual_trades) :
          /\ actual_trades[i].trade_time >= returned[1].start_date
          /\ actual_trades[i].trade_time <= returned[1].end_date
    /\ returned[1].result.profit_factor = [num |-> 0, den |-> 1]

\* C15: the summary counts the trades that have a profit_loss and a
\* trade_time in [start, end]: total_trades is their number,
\* winning_trades the number with a positive profit_loss, losing_trades
\* the number with a negative one, total_profit_loss their sum, and
\* win_rate is winning_trades / total_trades * 100.
C15_CountsOfThePeriod ==
    Summarised =>
        LET r == returned[1].result
        IN  /\ r.total_trades = Cardinality(CountedIn)
            /\ r.winning_trades = Cardinality(Winners)
            /\ r.losing_trades = Cardinality(Losers)
            /\ r.total_profit_loss = SumOver(CountedIn)
            /\ CountedIn # {} =>
                   /\ r.win_rate.den > 0
                   /\ r.win_rate.num * r.total_trades
                          = r.winning_trades * 100 * r.win_rate.den

\* profits of 500 and 500 and a loss of 1000 in the period: 3 trades, 2
\* won, 1 lost, a win rate of 200/3 and a total of 0
C15_TwoWonOneLost ==
    /\ Summarised
    /\ Len(actual_trades) = 3
    /\ LET r == returned[1].result
       IN  /\ r.total_trades = 3 /\ r.winning_trades = 2 /\ r.losing_trades = 1
           /\ r.win_rate = [num |-> 200, den |-> 3]
           /\ r.total_profit_loss = 0

ThreeTradesOfTheTest ==
    /\ Summarised
    /\ Cardinality(CountedIn) = 3
    /\ Cardinality({i \in CountedIn : ProfitOf(i) = 500}) = 2
    /\ Cardinality({i \in CountedIn : ProfitOf(i) = -1000}) = 1

-----------------------------------------------------------------------------
(* Properties of the report.                                               *)

Ranked == returned # <<>> /\ returned[1].op = "_get_top_performing_inferences"

\* the stored evaluations that have a logic score and a potential
\* profit/loss, by their place in the table
Candidates ==
    {i \in 1..Len(trade_evaluations) :
        /\ ~IsNone(trade_evaluations[i].logic_evaluation_score)
        /\ ~IsNone(trade_evaluations[i].potential_profit_loss)}

ScoreAt(i) == Val(trade_evaluations[i].logic_evaluation_score)

PotentialAt(i) == Val(trade_evaluations[i].potential_profit_loss)

LeastPotential == CHOOSE m \in {PotentialAt(i) : i \in Candidates} :
                      \A i \in Candidates : PotentialAt(i) >= m

Spread == (CHOOSE m \in {PotentialAt(i) : i \in Candidates} :
              \A i \in Candidates : PotentialAt(i) <= m) - LeastPotential

\* 0.6 * (score - 1) / 4 + 0.4 * p of candidate i, times 20 * Spread (times
\* 20 when all potentials are equal and p is 0.5)
CompositeAt(i) ==
    IF Spread # 0
    THEN 3 * (ScoreAt(i) - 1) * Spread + 8 * (PotentialAt(i) - LeastPotential)
    ELSE 3 * (ScoreAt(i) - 1) + 4

\* the candidates that come before candidate i: a higher composite score,
\* or an equal one and an earlier place in the input
Ahead(i) ==
    {j \in Candidates :
        \/ CompositeAt(j) > CompositeAt(i)
        \/ CompositeAt(j) = CompositeAt(i) /\ j < i}

\* C18: the call returns the first n of the evaluations that have a logic
\* score and a potential profit/loss, in descending order of the composite
\* score 0.6 * (score - 1) / 4 + 0.4 * p, equal scores in input order.
C18_TopByComposite ==
    Ranked =>
        LET result == returned[1].result
            n == returned[1].limit
        IN  /\ ~result.raised
            /\ Len(result.top) = Min2(n, Cardinality(Candidates))
            /\ \A k \in 1..Len(result.top) :
                  \E i \in Candidates :
                      /\ Cardinality(Ahead(i)) = k - 1
                      /\ result.top[k].inference_id = trade_evaluations[i].inference_id
                      /\ result.top[k].logic_score = ScoreAt(i)
                      /\ result.top[k].potential_pnl = PotentialAt(i)

Suggested == returned # <<>> /\ returned[1].op = "_generate_improvement_suggestions"

\* the stored evaluations that have a logic score, by their place
Scored == {i \in 1..Len(trade_evaluations) :
              ~IsNone(trade_evaluations[i].logic_evaluation_score)}

RECURSIVE SumOfScores(_)
SumOfScores(S) ==
    IF S = {} THEN 0
    ELSE LET i == CHOOSE x \in S : TRUE IN ScoreAt(i) + SumOfScores(S \ {i})

\* the average logic score as the report gives it, in hundredths: rounded
\* to two decimals, 0 when no evaluation has a score
ReportedAverage ==
    IF Scored = {} THEN 0
    ELSE (200 * SumOfScores(Scored) + Cardinality(Scored)) \div (2 * Cardinality(Scored))

\* the suggestions the four thresholds ask for, in their order
TriggeredSuggestions ==
    LET performance == returned[1].performance
    IN  (IF performance.win_rate.num < 50 * performance.win_rate.den
         THEN <<"improve_entry_timing">> ELSE <<>>)
        \o (IF ReportedAverage < 300
            THEN <<"include_market_analysis">> ELSE <<>>)
        \o (IF /\ performance.profit_factor.den # 0
               /\ 10 * performance.profit_factor.num < 12 * performance.profit_factor.den
            THEN <<"improve_risk_management">> ELSE <<>>)
        \o (IF 100 * Cardinality(Scored) < 80 * Len(trade_evaluations)
               \/ trade_evaluations = <<>>
            THEN <<"run_evaluations_regularly">> ELSE <<>>)

\* C19: the result holds one suggestion for each threshold that is
\* triggered (win rate below 50, average logic score of the report below
\* 3, profit factor below 1.2, completion rate below 80), in this order;
\* it is the single 'performing well' message exactly when none is
\* triggered, and it is never empty.
C19_SuggestionsPerThreshold ==
    Suggested =>
        /\ returned[1].result # <<>>
        /\ TriggeredSuggestions # <<>> => returned[1].result = TriggeredSuggestions
        /\ TriggeredSuggestions = <<>> <=> returned[1].result = <<"performing_well">>

\* trades and evaluations are stored and no threshold is triggered, the
\* completion rate being 80 exactly
C19_PerformingWell ==
    /\ Suggested
    /\ actual_trades # <<>>
    /\ Len(trade_evaluations) = 5
    /\ Cardinality(Scored) = 4
    /\ returned[1].result = <<"performing_well">>

-----------------------------------------------------------------------------
(* Frame of the handlers that write the store.                             *)

\* C24: a step of any handler leaves every stored inference and every
\* stored trade as it was, in its place; it may add rows after them.
C24_InferencesAndTradesKept ==
    [][ /\ Len(trade_inferences') >= Len(trade_inferences)
        /\ SubSeq(trade_inferences', 1, Len(trade_inferences)) = trade_inferences
        /\ Len(actual_trades') >= Len(actual_trades)
        /\ SubSeq(actual_trades', 1, Len(actual_trades)) = actual_trades
      ]_vars

\* a re-evaluation has replaced the evaluation of an inference that has a
\* trade
C24_ReEvaluatedWithTrade ==
    /\ Returned("re_evaluate_inference", TRUE)
    /\ Len(actual_trades) = 1
    /\ actual_trades[1].inference_id = Some(1)
    /\ \E e \in 1..Len(trade_evaluations) :
          trade_evaluations[e].inference_id = 1 /\ trade_evaluations[e].id > 1

-----------------------------------------------------------------------------
(* Properties of the evaluation sweep.                                     *)

\* this step is the return of a call of op
Called(op) == returned' # <<>> /\ returned'[1].op = op

\* the inferences without an evaluation, by their place in the table
Unevaluated ==
    {i \in 1..Len(trade_inferences) :
        ~EvaluationStoredFor(trade_inferences[i].id)}

\* worker w starts a sweep in this step: its query has returned rows
SweepStarts(w) == At(w, "idle") /\ proc'[w].pc = "sw_loop"

\* worker w takes a turn of the sweep's loop in this step
SweepTurn(w) == At(w, "sw_loop") /\ proc'[w] # proc[w]

\* the count the sweep of worker w has after this step: its counter while
\* it runs, what it returns when it ends
CountAfter(w) ==
    IF proc'[w].pc = "sw_loop" THEN proc'[w].loc.evaluated_count
    ELSE returned'[1].result.evaluated_count

\* C26: a sweep takes the unevaluated inferences of the time it starts,
\* newest first and at most max of them; each turn of its loop leaves the
\* evaluations there are as they were, adds at most one, for the inference
\* at hand, and counts it; the sweep returns the count.
C26_SweepCreatesAndCounts ==
    [][ \A w \in Workers :
          /\ SweepStarts(w) =>
                LET loc == proc'[w].loc
                    taken == {loc.pending[k].id : k \in 1..Len(loc.pending)}
                IN  /\ Len(loc.pending) = Min2(loc.max_evaluations,
                                               Cardinality(Unevaluated))
                    /\ Cardinality(taken) = Len(loc.pending)
                    /\ \A k \in 1..Len(loc.pending) :
                          \E i \in Unevaluated : trade_inferences[i] = loc.pending[k]
                    /\ \A j, k \in 1..Len(loc.pending) :
                          j < k => loc.pending[j].inference_time
                                      >= loc.pending[k].inference_time
                    /\ \A i \in Unevaluated :
                          trade_inferences[i].id \notin taken =>
                              \A k \in 1..Len(loc.pending) :
                                  loc.pending[k].inference_time
                                      >= trade_inferences[i].inference_time
                    /\ trade_evaluations' = trade_evaluations
          /\ SweepTurn(w) =>
                LET loc == proc[w].loc
                    added == Len(trade_evaluations') - Len(trade_evaluations)
                IN  /\ added \in {0, 1}
                    /\ SubSeq(trade_evaluations', 1, Len(trade_evaluations))
                          = trade_evaluations
                    /\ added = 1 =>
                          trade_evaluations'[Len(trade_evaluations')].inference_id
                              = Head(loc.pending).id
                    /\ CountAfter(w) = loc.evaluated_count + added
                    /\ proc'[w].pc = "idle" => ~returned'[1].result.raised
      ]_vars

\* C27: with sweeps kept running and no inference added, from some time on
\* every stored inference has an evaluation; and a sweep run when every
\* inference has one creates nothing and returns 0.
C27_EventuallyAllEvaluated ==
    /\ <>[](Unevaluated = {})
    /\ [][ Unevaluated = {} =>
              /\ \A w \in Workers : ~SweepStarts(w)
              /\ (Called("run_evaluations") /\ proc' = proc) =>
                    /\ returned'[1].result = [raised |-> FALSE, evaluated_count |-> 0]
                    /\ trade_evaluations' = trade_evaluations
         ]_vars

-----------------------------------------------------------------------------
(* Properties of the re-evaluation.                                        *)

\* worker w returns from the second half of re_evaluate_inference in this
\* step
ReEvaluationEnds(w) == At(w, "re_insert") /\ proc'[w].pc = "idle"

\* the rows of the evaluations table after this step that belong to an
\* inference
EvaluationsAfter(inference_id) ==
    {e \in 1..Len(trade_evaluations') :
        trade_evaluations'[e].inference_id = inference_id}

\* C28: when re_evaluate_inference returns False, the evaluation the
\* inference had when the call looked it up is stored as it was; when it
\* returns True, the inference has exactly one evaluation, a row that was
\* not there before and holds what the engine computes.
C28_ReEvaluationAllOrNothing ==
    [][ \A w \in Workers :
          ReEvaluationEnds(w) =>
              LET inference == proc[w].loc.inference
                  before == proc[w].loc.existing_evaluation
                  related == get_actual_trades_by_inference(actual_trades, inference.id)
                  computed == evaluate_inference(inference, related)
              IN  IF returned'[1].result
                  THEN \E new \in EvaluationsAfter(inference.id) :
                          /\ EvaluationsAfter(inference.id) = {new}
                          /\ \A e \in 1..Len(trade_evaluations) :
                                trade_evaluations[e].id # trade_evaluations'[new].id
                          /\ trade_evaluations'[new].logic_evaluation_score
                                = computed.logic_evaluation_score
                          /\ trade_evaluations'[new].evaluation_summary
                                = computed.evaluation_summary
                  ELSE \/ IsNone(before)
                       \/ \E e \in 1..Len(trade_evaluations') :
                             trade_evaluations'[e] = Val(before)
      ]_vars

-----------------------------------------------------------------------------
(* Properties of evaluators that race.                                     *)

\* worker w is about to create an evaluation: the statement it is at
Creating(w) == proc[w].pc \in {"ce_insert", "sw_loop", "re_insert"}

\* the inference that evaluation is for
TargetOf(w) ==
    CASE At(w, "ce_insert") -> proc[w].loc.evaluation.inference_id
      [] At(w, "sw_loop")   -> Head(proc[w].loc.pending).id
      [] At(w, "re_insert") -> proc[w].loc.inference.id

\* what the handler of worker w returns when its create has failed
ErrorOutcome(w) ==
    CASE At(w, "ce_insert") -> Called("create_evaluation") /\ returned'[1].result = 500
      [] At(w, "sw_loop")   -> Called("run_evaluations") /\ returned'[1].result.raised
      [] At(w, "re_insert") -> Called("re_evaluate_inference")
                                  /\ returned'[1].result = FALSE

\* C29: an evaluator that comes to its create when an evaluation of its
\* inference is stored (another evaluator was first) stores nothing and
\* ends in its error outcome; no step leaves two evaluations of one
\* inference.
C29_LoserEndsInError ==
    [][ /\ \A w \in Workers :
              ( /\ Creating(w)
                /\ proc'[w] # proc[w]
                /\ EvaluationStoredFor(TargetOf(w)) )
              => /\ trade_evaluations' = trade_evaluations
                 /\ proc'[w].pc = "idle"
                 /\ ErrorOutcome(w)
        /\ \A i, j \in 1..Len(trade_evaluations') :
              trade_evaluations'[i].inference_id = trade_evaluations'[j].inference_id
                  => i = j
      ]_vars

\* POST /evaluations/ has lost the race: its create was refused by the
\* database, and the winner's evaluation, made by the engine, is stored
C29_PostLostTheRace ==
    /\ Returned("create_evaluation", 500)
    /\ Len(trade_evaluations) = 1
    /\ trade_evaluations[1].logic_evaluation_comment # Some(<<"manual">>)

-----------------------------------------------------------------------------
(* Properties of the scheduler.                                            *)

\* the executions of a job, over every scheduler constructed
ExecutionsInFlight(j) ==
    {<<i, k>> \in (1..Len(schedulers)) \X (1..MaxDue) :
        k <= Len(schedulers[i].executing[j])}

\* C22: of each of the five jobs at most one execution is in flight, and an
\* execution runs the job once however many of its run times were due when
\* it was submitted.
C22_OneExecutionOneRun ==
    \A j \in JobIds :
        /\ Cardinality(ExecutionsInFlight(j)) <= 1
        /\ \A e \in ExecutionsInFlight(j) :
               schedulers[e[1]].executing[j][e[2]].run_times = 1

\* an execution made of two due run times is in flight, and two more run
\* times of its job have passed since
C22_MissedRunsCoalesced ==
    \E i \in 1..Len(schedulers) :
        /\ schedulers[i].executing["run_evaluations"] # <<>>
        /\ schedulers[i].executing["run_evaluations"][1].due = 2
        /\ schedulers[i].due["run_evaluations"] = 2

\* the schedulers that have not been shut down
Live(all) == {i \in 1..Len(all) : all[i].state # "stopped"}

\* C30: at most one scheduler is live and it is the module's instance;
\* get_scheduler constructs one only when there is none and otherwise
\* returns the instance; stop_scheduler leaves the instance shut down and
\* cleared; stop_scheduler without an instance changes nothing.
C30_SingleScheduler ==
    [][ /\ Cardinality(Live(schedulers')) <= 1
        /\ IF IsNone(_scheduler_instance')
           THEN Live(schedulers') = {}
           ELSE Live(schedulers') = {Val(_scheduler_instance')}
        /\ Called("get_scheduler") =>
              /\ returned'[1].result = Val(_scheduler_instance')
              /\ IF IsNone(_scheduler_instance)
                 THEN /\ Len(schedulers') = Len(schedulers) + 1
                      /\ _scheduler_instance' = Some(Len(schedulers'))
                      /\ SubSeq(schedulers', 1, Len(schedulers)) = schedulers
                 ELSE UNCHANGED scheduler_vars
        /\ Called("stop_scheduler") =>
              /\ IsNone(_scheduler_instance')
              /\ IF returned'[1].result = "no_instance"
                 THEN IsNone(_scheduler_instance) /\ UNCHANGED scheduler_vars
                 ELSE \E i \in 1..Len(schedulers) :
                         /\ schedulers[i].state = "stopping"
                         /\ schedulers'[i].state = "stopped"
      ]_vars

\* a second scheduler, constructed by get_scheduler after the first one was
\* stopped
C30_SecondAfterStop ==
    /\ Returned("get_scheduler", 2)
    /\ Len(schedulers) = 2
    /\ schedulers[1].state = "stopped"
    /\ schedulers[2].state = "running"
    /\ _scheduler_instance = Some(2)

-----------------------------------------------------------------------------
(* Properties of the creation of trades.                                   *)

\* C23: every stored trade has an amount above zero.
C23_AmountPositive ==
    \A i \in 1..Len(actual_trades) : actual_trades[i].amount > 0

-----------------------------------------------------------------------------
(* Properties of the phrase patterns.                                      *)

\* the matches of the p-th pattern in the text parsed
MatchesOf(p) ==
    LET ms == FindIter(action_patterns[p], engine_text, 1)
    IN  {ms[k] : k \in 1..Len(ms)}

\* the instrument token and the action token of a match of the p-th
\* pattern, as the pattern's groups are laid out
InstrumentToken(p, m) == IF p \in {1, 3} THEN m.groups[2] ELSE m.groups[1]

ActionToken(p, m) == IF p \in {1, 3} THEN m.groups[1] ELSE m.groups[2]

ActionMeant(token) ==
    IF UpperStr(token) = BUY \/ token = KAI THEN BUY ELSE SELL

\* C25: every match of any of the four patterns whose instrument token has
\* six letters gives a candidate at the place of the match, with that
\* instrument and the action its action token means.
C25_EveryMatchContributes ==
    Parsed =>
        \A p \in 1..Len(action_patterns) : \A m \in MatchesOf(p) :
            Len(UpperStr(InstrumentToken(p, m))) = 6 =>
                \E k \in 1..Len(engine_out[1].actions) :
                    LET c == engine_out[1].actions[k]
                    IN  /\ c.position_in_text = m.start
                        /\ c.pair = UpperStr(InstrumentToken(p, m))
                        /\ c.action = ActionMeant(ActionToken(p, m))

=============================================================================
